---- MODULE Spec2Model ----
(***************************************************************************)
(* Orders service (src/src/otel-python-app/app.py): circuit breaker,       *)
(* retry executor, dependency client and the create-order workflow.        *)
(*                                                                         *)
(* Specifications                                                          *)
(*   SpecCB    the CircuitBreaker methods called in any order, one call    *)
(*             at a time, while the clock advances                         *)
(*   SpecRetry call_with_retry applied to an operation whose outcome per   *)
(*             attempt is drawn in Init, for max_retries drawn in Init     *)
(*   SpecClient call_with_retry(call_products_service(method)) for a       *)
(*             method drawn from Methods                                   *)
(*   Spec      create-order requests handled one after another             *)
(*   SpecConc  create-order requests handled by concurrent threads         *)
(*   SpecStore create-order, get_order and cancel_order requests handled   *)
(*             one after another                                           *)
(*   SpecStoreConc  cancel_order requests handled by concurrent threads    *)
(*   SpecCBConc     the CircuitBreaker methods run by concurrent threads,  *)
(*             one statement at a time                                     *)
(*   SpecSessions   update_session and get_active_sessions_count           *)
(*   SpecSessionsConc  the same two run by concurrent threads, one         *)
(*             statement at a time                                         *)
(*   SpecSla   create-order requests while the clock passes the SLA        *)
(*             threshold                                                   *)
(*   SpecOrderSessions  create-order requests with the before_request      *)
(*             hook, with and without user_id in the body                  *)
(*   SpecReads create-order, get_order, track_order, get_user_orders and   *)
(*             cancel_order requests handled one after another             *)
(*   SpecRecover  create-order requests during and after an outage of the  *)
(*             dependency, with fairness                                   *)
(*   SpecTerminate  create-order requests handled one after another by a   *)
(*             server thread that keeps running, with fairness             *)
(* before_request (update_session) is part of SpecSessions and             *)
(* SpecOrderSessions only: the other specifications take requests whose    *)
(* session is not looked at.                                               *)
(***************************************************************************)
EXTENDS Integers, Sequences, FiniteSets, TLC

(***************************************************************************)
(* Program constants                                                       *)
(***************************************************************************)
\* CircuitBreaker.__init__ defaults
failure_threshold == 5
reset_timeout == 30
\* call_with_retry default
default_max_retries == 3
\* last_failure_time before any failure (Python None)
None == -1
\* first value of order_id_counter
first_order_id == 1
\* width of the zero padding in f'ORD-{order_id_counter:05d}'
order_id_width == 5
\* SESSION_TIMEOUT_MINUTES
SESSION_TIMEOUT_MINUTES == 30
\* the SLA threshold of `if processing_time > 2.0`, in seconds
sla_threshold == 2
\* seconds in a minute: the clock counts seconds
SecondsPerMinute == 60

(***************************************************************************)
(* Bounds of the model                                                     *)
(***************************************************************************)
\* cap on CircuitBreaker.failures (record_failure is not taken beyond it)
MaxFailures == 6
\* cap on the can_execute calls counted while half-open
MaxProbes == 2
\* largest max_retries given to call_with_retry in SpecRetry
MaxRetries == 4
\* create-order requests that arrive in Spec
MaxRequests == 3
\* create-order requests that arrive in SpecConc
MaxConcRequests == 2
\* requests handled one after another in SpecStore
MaxStoreRequests == 3
\* create-order requests, and requests in all, in SpecStoreConc
MaxStoreCreates == 1
MaxCancelRequests == 3
\* largest request_count of a session
MaxSessionRequests == 2
MaxSlaRequests == 2
MaxSessionOrders == 2
MaxReadRequests == 3
MaxOutageRequests == 2
MaxRecoverOrders == 1
MaxTerminateRequests == 2

\* the clock readings of the breaker specifications: both sides of the
\* reset_timeout boundary, measured from a failure at 0 or at 1
Instants == {0, 1, reset_timeout, reset_timeout + 1}
\* the clock readings of Spec: the same instant, or past the reset_timeout
CoarseInstants == {0, reset_timeout + 1}

(***************************************************************************)
(* CircuitBreaker: the object is a record of its three mutable fields.     *)
(***************************************************************************)
CircuitBreaker_init ==
    [failures |-> 0, state |-> "closed", last_failure_time |-> None]

\* can_execute at clock reading t: the returned value, the exception raised
\* (float - None is a TypeError) and the breaker afterwards
can_execute_half_open_rejects(cb, t) ==
    IF cb.state = "closed"
    THEN [ret |-> TRUE, exc |-> "none", cb |-> cb]
    ELSE IF cb.state = "open"
    THEN IF cb.last_failure_time = None
         THEN [ret |-> FALSE, exc |-> "TypeError", cb |-> cb]
         ELSE IF t - cb.last_failure_time > reset_timeout
              THEN [ret |-> TRUE, exc |-> "none",
                    cb |-> [cb EXCEPT !.state = "half-open"]]
              ELSE [ret |-> FALSE, exc |-> "none", cb |-> cb]
    ELSE [ret |-> FALSE, exc |-> "none", cb |-> cb]

can_execute_stays_open(cb, t) ==
    IF cb.state = "closed"
    THEN [ret |-> TRUE, exc |-> "none", cb |-> cb]
    ELSE IF cb.state = "open"
    THEN IF cb.last_failure_time = None
         THEN [ret |-> FALSE, exc |-> "TypeError", cb |-> cb]
         ELSE [ret |-> FALSE, exc |-> "none", cb |-> cb]
    ELSE [ret |-> TRUE, exc |-> "none", cb |-> cb]

can_execute_at_timeout(cb, t) ==
    IF cb.state = "closed"
    THEN [ret |-> TRUE, exc |-> "none", cb |-> cb]
    ELSE IF cb.state = "open"
    THEN IF cb.last_failure_time = None
         THEN [ret |-> FALSE, exc |-> "TypeError", cb |-> cb]
         ELSE IF t - cb.last_failure_time >= reset_timeout
              THEN [ret |-> TRUE, exc |-> "none",
                    cb |-> [cb EXCEPT !.state = "half-open"]]
              ELSE [ret |-> FALSE, exc |-> "none", cb |-> cb]
    ELSE [ret |-> TRUE, exc |-> "none", cb |-> cb]

can_execute(cb, t) ==
    IF cb.state = "closed"
    THEN [ret |-> TRUE, exc |-> "none", cb |-> cb]
    ELSE IF cb.state = "open"
    THEN IF cb.last_failure_time = None
         THEN [ret |-> FALSE, exc |-> "TypeError", cb |-> cb]
         ELSE IF t - cb.last_failure_time > reset_timeout
              THEN [ret |-> TRUE, exc |-> "none",
                    cb |-> [cb EXCEPT !.state = "half-open"]]
              ELSE [ret |-> FALSE, exc |-> "none", cb |-> cb]
    ELSE [ret |-> TRUE, exc |-> "none", cb |-> cb]

record_success_keeps_state(cb) ==
    [cb EXCEPT !.failures = 0]

record_success(cb) ==
    [cb EXCEPT !.failures = 0, !.state = "closed"]

record_failure_opens_early(cb, t) ==
    [cb EXCEPT !.failures = cb.failures + 1,
               !.last_failure_time = t,
               !.state = IF cb.failures + 1 >= failure_threshold - 1
                         THEN "open" ELSE cb.state]

record_failure(cb, t) ==
    [cb EXCEPT !.failures = cb.failures + 1,
               !.last_failure_time = t,
               !.state = IF cb.failures + 1 >= failure_threshold
                         THEN "open" ELSE cb.state]

(***************************************************************************)
(* Order ids: f'ORD-{order_id_counter:05d}' as the prefix and the decimal  *)
(* digits, zero-padded on the left to order_id_width.                      *)
(***************************************************************************)
RECURSIVE Digits(_)
Digits(n) == IF n < 10 THEN <<n>> ELSE Digits(n \div 10) \o <<n % 10>>

RECURSIVE ZeroPad(_, _)
ZeroPad(ds, w) == IF Len(ds) >= w THEN ds ELSE ZeroPad(<<0>> \o ds, w)

format_order_id(n) ==
    [prefix |-> "ORD-", digits |-> ZeroPad(Digits(n), order_id_width)]

\* the number an order id's digits spell (int(order_id[4:]))
RECURSIVE DigitsValue(_)
DigitsValue(ds) ==
    IF ds = <<>> THEN 0
    ELSE 10 * DigitsValue(SubSeq(ds, 1, Len(ds) - 1)) + ds[Len(ds)]

NoOrderId == [prefix |-> "", digits |-> <<>>]

(***************************************************************************)
(* Values passed between the frames: a response of the dependency, an      *)
(* exception, or nothing. id numbers the invocation that produced it.      *)
(***************************************************************************)
NoValue ==
    [kind |-> "none", id |-> 0, type |-> "-", status |-> 0, price |-> 0,
     stock |-> 0]

ResponseValue(i, status, price, stock) ==
    [kind |-> "response", id |-> i, type |-> "-", status |-> status,
     price |-> price, stock |-> stock]

ExceptionValue(i, type) ==
    [kind |-> "exception", id |-> i, type |-> type, status |-> 0,
     price |-> 0, stock |-> 0]

\* the classes caught by `except requests.RequestException`
IsRequestException(type) == type \in {"ConnectionError", "Timeout", "HTTPError"}

(***************************************************************************)
(* State                                                                   *)
(***************************************************************************)
VARIABLES
    products_circuit_breaker, \* the module-level CircuitBreaker instance
    now,                      \* the clock read by time.time()
    orders,                   \* order id -> order record
    order_id_counter,
    user_order_history,       \* user id -> sequence of order ids
    known_users,
    pc,                       \* per thread: position in its handler
    req,                      \* per thread: the locals of its handler frames
    obs,                      \* per thread: what the current request has done
    cb_last,                  \* the last CircuitBreaker method call
    probes,                   \* can_execute permits given while half-open and
                              \* not yet followed by a record_* call
    consec,                   \* record_failure calls since the last
                              \* record_success
    issued,                   \* order ids answered with 201, in that order
    nreq,                     \* requests started so far
    active_sessions,          \* session id -> session record
    sess_last,                \* the last get_active_sessions_count call
    answered                  \* the order records answered with 201, as issued

breaker_vars == <<products_circuit_breaker, cb_last, probes, consec>>
store_vars == <<orders, order_id_counter, user_order_history, known_users>>
thread_vars == <<pc, req, obs>>
session_vars == <<active_sessions, sess_last>>
vars == <<products_circuit_breaker, now, orders, order_id_counter,
          user_order_history, known_users, pc, req, obs, cb_last, probes,
          consec, issued, nreq, active_sessions, sess_last, answered>>

Threads == {"t1", "t2"}

(***************************************************************************)
(* Calls of the CircuitBreaker methods on products_circuit_breaker         *)
(***************************************************************************)
CallCanExecute ==
    LET r == can_execute(products_circuit_breaker, now) IN
    /\ products_circuit_breaker' = r.cb
    /\ cb_last' = [op |-> "can_execute", ret |-> r.ret, exc |-> r.exc,
                   pre |-> products_circuit_breaker]
    /\ probes' = IF r.ret /\ r.cb.state = "half-open"
                 THEN probes + 1 ELSE probes
    /\ UNCHANGED consec

CallRecordSuccess ==
    /\ products_circuit_breaker' = record_success(products_circuit_breaker)
    /\ cb_last' = [op |-> "record_success", ret |-> FALSE, exc |-> "none",
                   pre |-> products_circuit_breaker]
    /\ probes' = 0
    /\ consec' = 0

CallRecordFailure ==
    /\ products_circuit_breaker.failures < MaxFailures
    /\ products_circuit_breaker' = record_failure(products_circuit_breaker, now)
    /\ cb_last' = [op |-> "record_failure", ret |-> FALSE, exc |-> "none",
                   pre |-> products_circuit_breaker]
    /\ probes' = 0
    /\ consec' = consec + 1

\* the clock moves on to a later one of the sampled instants
Tick(instants) ==
    /\ \E t \in instants : t > now /\ now' = t
    /\ UNCHANGED <<breaker_vars, store_vars, thread_vars, issued, nreq, session_vars, answered>>

(***************************************************************************)
(* SpecCB: the breaker alone                                               *)
(***************************************************************************)
CB_can_execute ==
    /\ probes < MaxProbes
    /\ CallCanExecute
    /\ UNCHANGED <<now, store_vars, thread_vars, issued, nreq, session_vars, answered>>

CB_record_success ==
    /\ CallRecordSuccess
    /\ UNCHANGED <<now, store_vars, thread_vars, issued, nreq, session_vars, answered>>

CB_record_failure ==
    /\ CallRecordFailure
    /\ UNCHANGED <<now, store_vars, thread_vars, issued, nreq, session_vars, answered>>

(***************************************************************************)
(* Frames of a thread                                                      *)
(***************************************************************************)
NoSnapshot ==
    [orders |-> <<>>, order_id_counter |-> 0, user_order_history |-> <<>>]

\* no order record
NoOrder ==
    [order_id |-> NoOrderId, user_id |-> "-", product_id |-> "-",
     quantity |-> 0, price_per_unit |-> 0, total_amount |-> 0,
     status |-> "-", status_history |-> <<>>, created_at |-> None,
     updated_at |-> None]

NoResponse ==
    [status |-> 0, reason |-> "-", order_id |-> NoOrderId, requested |-> 0,
     available |-> 0, lost_revenue |-> 0, order |-> NoOrder, refund |-> 0]

\* sess_last before any get_active_sessions_count call
NoSessionCall == [ret |-> None, pre |-> <<>>, post |-> <<>>, at |-> None]

BlankReq ==
    [user_id |-> "-", product_id |-> "-", quantity |-> 0,
     func |-> "-", method |-> "-", max_retries |-> 0, attempt |-> 0,
     last_exception |-> NoValue, raised |-> NoValue, outcome |-> NoValue,
     result |-> NoValue, script |-> <<>>,
     price |-> 0, stock |-> 0, order_id |-> NoOrderId, loaded |-> 0,
     order_record |-> NoOrder, target |-> NoOrderId, previous_status |-> "-",
     response |-> NoResponse,
     start_time |-> 0, current_time |-> 0, expired |-> <<>>, todo |-> {}, size |-> 0,
     count |-> 0]

BlankObs ==
    [calls |-> 0,        \* invocations of func by the current call_with_retry
     retries |-> 0,      \* retry_counter.add calls of the current call_with_retry
     sleeps |-> 0,       \* time.sleep calls of the current call_with_retry
     rejected |-> 0,     \* invocation whose can_execute returned false first
     permitted |-> FALSE, \* can_execute of the current call_products_service
     net |-> 0,          \* HTTP requests sent by the current call_products_service
     recs |-> 0,         \* record_* calls of the current call_products_service
     answer |-> 0,       \* status of the response to the current call_with_retry
     hist |-> <<>>,      \* order_processing_time_histogram.record calls
     lost |-> <<>>,      \* failed_transaction_revenue_counter.add calls
     cancels |-> <<>>,   \* cancellation_counter.add calls
     sla |-> <<>>,       \* reason tags of the sla_violation_counter.add calls
     processing_time |-> 0, \* time.time() - start_time of the exit path
     evicted |-> <<>>,   \* del active_sessions[..] statements that removed a key
     trail |-> <<>>,     \* the steps of create_order entered, in order
     sent |-> {},        \* the dependency calls for which a request was sent
     seen |-> {},        \* the responses of the dependency, per call
     snap |-> NoSnapshot] \* the store when the request arrived

(***************************************************************************)
(* call_with_retry(func, max_retries, backoff_factor)                      *)
(***************************************************************************)
\* for attempt in range(max_retries): the loop body runs for this attempt
range_has_one_more(attempt, max_retries) == attempt <= max_retries

range_has(attempt, max_retries) == attempt < max_retries

\* if attempt < max_retries - 1: retry metric, log and sleep
retry_after_every_failure(attempt, max_retries) == attempt < max_retries

retry_after_failure(attempt, max_retries) == attempt < max_retries - 1

\* entry point of func
FuncEntry(func) == IF func = "op" THEN "op_call" ELSE "cps_enter"

\* loop head: invoke func for this attempt, or leave the loop and
\* `raise last_exception` (raise None is a TypeError)
CwrLoop(p) ==
    /\ pc[p] = "cwr_loop"
    /\ IF range_has(req[p].attempt, req[p].max_retries)
       THEN /\ pc' = [pc EXCEPT ![p] = FuncEntry(req[p].func)]
            /\ obs' = [obs EXCEPT ![p].calls = @ + 1]
            /\ UNCHANGED req
       ELSE /\ pc' = [pc EXCEPT ![p] = "cwr_return"]
            /\ req' = [req EXCEPT ![p].result =
                          IF req[p].last_exception.kind = "none"
                          THEN ExceptionValue(0, "TypeError")
                          ELSE req[p].last_exception]
            /\ UNCHANGED obs
    /\ UNCHANGED <<breaker_vars, now, store_vars, issued, nreq, session_vars, answered>>

\* except Exception as e: (lines 382-388, up to the sleep)
CwrExcept(p) ==
    /\ pc[p] = "cwr_except"
    /\ IF retry_after_failure(req[p].attempt, req[p].max_retries)
       THEN /\ pc' = [pc EXCEPT ![p] = "cwr_sleep"]
            /\ req' = [req EXCEPT ![p].last_exception = req[p].raised,
                                  ![p].raised = NoValue]
            /\ obs' = [obs EXCEPT ![p].retries = @ + 1, ![p].sleeps = @ + 1]
       ELSE /\ pc' = [pc EXCEPT ![p] = "cwr_loop"]
            /\ req' = [req EXCEPT ![p].last_exception = req[p].raised,
                                  ![p].raised = NoValue,
                                  ![p].attempt = @ + 1]
            /\ UNCHANGED obs
    /\ UNCHANGED <<breaker_vars, now, store_vars, issued, nreq, session_vars, answered>>

\* time.sleep(wait_time) returns; next iteration
CwrWake(p) ==
    /\ pc[p] = "cwr_sleep"
    /\ pc' = [pc EXCEPT ![p] = "cwr_loop"]
    /\ req' = [req EXCEPT ![p].attempt = @ + 1]
    /\ UNCHANGED <<breaker_vars, now, store_vars, obs, issued, nreq, session_vars, answered>>

\* the operation of SpecRetry: attempt k succeeds or fails as script[k] says
OpCall(p) ==
    /\ pc[p] = "op_call"
    /\ LET k == obs[p].calls IN
       IF k \in DOMAIN req[p].script /\ req[p].script[k] = "ok"
       THEN /\ pc' = [pc EXCEPT ![p] = "cwr_return"]
            /\ req' = [req EXCEPT ![p].result = ResponseValue(k, 200, 0, 0)]
       ELSE /\ pc' = [pc EXCEPT ![p] = "cwr_except"]
            /\ req' = [req EXCEPT ![p].raised = ExceptionValue(k, "OpError")]
    /\ UNCHANGED <<breaker_vars, now, store_vars, obs, issued, nreq, session_vars, answered>>

(***************************************************************************)
(* call_products_service(method, path, json_data, timeout)                 *)
(***************************************************************************)
Statuses == {200, 404, 500}
Prices == {10}
Stocks == {0, 1, 2}
TransportErrors == {"ConnectionError", "Timeout"}

\* what the dependency may answer to the request of func, as invocation i
Answers(func, i) ==
    IF func = "fetch_product"
    THEN {ResponseValue(i, 200, pr, 0) : pr \in Prices}
         \cup {ResponseValue(i, st, 0, 0) : st \in Statuses \ {200}}
    ELSE IF func = "check_inventory"
    THEN {ResponseValue(i, 200, 0, sk) : sk \in Stocks}
         \cup {ResponseValue(i, st, 0, 0) : st \in Statuses \ {200}}
    ELSE {ResponseValue(i, st, 0, 0) : st \in Statuses}

\* lines 339-349: the breaker is asked; a refusal raises Exception
CpsEnter(p) ==
    /\ pc[p] = "cps_enter"
    /\ CallCanExecute
    /\ LET r == can_execute(products_circuit_breaker, now) IN
       IF r.exc # "none"
       THEN /\ pc' = [pc EXCEPT ![p] = "cwr_except"]
            /\ req' = [req EXCEPT ![p].raised =
                          ExceptionValue(obs[p].calls, r.exc)]
            /\ obs' = [obs EXCEPT ![p].permitted = FALSE, ![p].net = 0,
                                  ![p].recs = 0]
       ELSE IF ~r.ret
       THEN /\ pc' = [pc EXCEPT ![p] = "cwr_except"]
            /\ req' = [req EXCEPT ![p].raised =
                          ExceptionValue(obs[p].calls, "CircuitOpen")]
            /\ obs' = [obs EXCEPT ![p].permitted = FALSE, ![p].net = 0,
                                  ![p].recs = 0,
                                  ![p].rejected =
                                      IF @ = 0 THEN obs[p].calls ELSE @]
       ELSE /\ pc' = [pc EXCEPT ![p] = "cps_request"]
            /\ obs' = [obs EXCEPT ![p].permitted = TRUE, ![p].net = 0,
                                  ![p].recs = 0]
            /\ UNCHANGED req
    /\ UNCHANGED <<now, store_vars, issued, nreq, session_vars, answered>>

\* lines 351-357: requests.get / requests.post returns or raises; any other
\* method raises ValueError without a request
CpsRequest(p) ==
    /\ pc[p] = "cps_request"
    /\ pc' = [pc EXCEPT ![p] = "cps_record"]
    /\ IF req[p].method \in {"GET", "POST"}
       THEN /\ \E v \in Answers(req[p].func, obs[p].calls)
                      \cup {ExceptionValue(obs[p].calls, e) :
                               e \in TransportErrors} :
                  /\ v.kind = "exception" =>
                         products_circuit_breaker.failures < MaxFailures
                  /\ req' = [req EXCEPT ![p].outcome = v]
                  /\ obs' = [obs EXCEPT
                         ![p].net = @ + 1,
                         ![p].answer = IF v.kind = "response"
                                       THEN v.status ELSE @,
                         ![p].sent = @ \cup {req[p].func},
                         ![p].seen = IF v.kind = "response"
                                     THEN @ \cup {[func |-> req[p].func,
                                                   status |-> v.status]}
                                     ELSE @]
       ELSE /\ req' = [req EXCEPT ![p].outcome =
                          ExceptionValue(obs[p].calls, "ValueError")]
            /\ UNCHANGED obs
    /\ UNCHANGED <<breaker_vars, now, store_vars, issued, nreq, session_vars, answered>>

\* which CircuitBreaker method the outcome of the try block leads to
cps_recording_skips_value_error(v) ==
    IF v.kind = "response" THEN "record_success"
    ELSE IF v.type = "ValueError" THEN "none" ELSE "record_failure"

cps_recording_fails_on_server_error(v) ==
    IF v.kind = "response" /\ v.status < 500 THEN "record_success"
    ELSE "record_failure"

cps_recording(v) ==
    IF v.kind = "response" THEN "record_success" ELSE "record_failure"

\* lines 359-374: record_success and return, or record_failure and re-raise
CpsRecord(p) ==
    /\ pc[p] = "cps_record"
    /\ LET v == req[p].outcome
           m == cps_recording(v) IN
       /\ IF m = "record_success" THEN CallRecordSuccess
          ELSE IF m = "record_failure" THEN CallRecordFailure
          ELSE UNCHANGED breaker_vars
       /\ obs' = [obs EXCEPT ![p].recs = IF m = "none" THEN @ ELSE @ + 1]
       /\ IF v.kind = "response"
          THEN /\ pc' = [pc EXCEPT ![p] = "cwr_return"]
               /\ req' = [req EXCEPT ![p].result = v, ![p].outcome = NoValue]
          ELSE /\ pc' = [pc EXCEPT ![p] = "cwr_except"]
               /\ req' = [req EXCEPT ![p].raised = v, ![p].outcome = NoValue]
    /\ UNCHANGED <<now, store_vars, issued, nreq, session_vars, answered>>

(***************************************************************************)
(* Initial state: the module has been imported, no request has arrived     *)
(***************************************************************************)
Init ==
    /\ products_circuit_breaker = CircuitBreaker_init
    /\ now = 0
    /\ orders = <<>>
    /\ order_id_counter = first_order_id
    /\ user_order_history = <<>>
    /\ known_users = {}
    /\ pc = [t \in Threads |-> "idle"]
    /\ req = [t \in Threads |-> BlankReq]
    /\ obs = [t \in Threads |-> BlankObs]
    /\ cb_last = [op |-> "none", ret |-> FALSE, exc |-> "none",
                  pre |-> CircuitBreaker_init]
    /\ probes = 0
    /\ consec = 0
    /\ issued = <<>>
    /\ nreq = 0
    /\ active_sessions = <<>>
    /\ sess_last = NoSessionCall
    /\ answered = <<>>

NextCB ==
    \/ CB_can_execute
    \/ CB_record_success
    \/ CB_record_failure
    \/ Tick(Instants)

SpecCB == Init /\ [][NextCB]_vars

(***************************************************************************)
(* SpecRetry: call_with_retry(op, max_retries) on thread t1                *)
(***************************************************************************)
InitRetry ==
    /\ products_circuit_breaker = CircuitBreaker_init
    /\ now = 0
    /\ orders = <<>>
    /\ order_id_counter = first_order_id
    /\ user_order_history = <<>>
    /\ known_users = {}
    /\ pc = [t \in Threads |-> IF t = "t1" THEN "cwr_loop" ELSE "idle"]
    /\ \E m \in 0..MaxRetries, sc \in [1..MaxRetries -> {"ok", "fail"}] :
           req = [t \in Threads |->
                     IF t = "t1"
                     THEN [BlankReq EXCEPT !.func = "op", !.max_retries = m,
                                           !.script = sc]
                     ELSE BlankReq]
    /\ obs = [t \in Threads |-> BlankObs]
    /\ cb_last = [op |-> "none", ret |-> FALSE, exc |-> "none",
                  pre |-> CircuitBreaker_init]
    /\ probes = 0
    /\ consec = 0
    /\ issued = <<>>
    /\ nreq = 0
    /\ active_sessions = <<>>
    /\ sess_last = NoSessionCall
    /\ answered = <<>>

NextRetry ==
    \/ CwrLoop("t1")
    \/ OpCall("t1")
    \/ CwrExcept("t1")
    \/ CwrWake("t1")

SpecRetry == InitRetry /\ [][NextRetry]_vars

(***************************************************************************)
(* SpecClient: call_with_retry(lambda: call_products_service(method, ..))  *)
(* called again and again on thread t1                                     *)
(***************************************************************************)
Methods == {"GET", "POST", "PUT"}

ClientCall(p) ==
    /\ pc[p] = "idle"
    /\ \E m \in Methods :
           req' = [req EXCEPT ![p] =
                      [BlankReq EXCEPT !.func = "client", !.method = m,
                                       !.max_retries = default_max_retries]]
    /\ obs' = [obs EXCEPT ![p] = BlankObs]
    /\ pc' = [pc EXCEPT ![p] = "cwr_loop"]
    /\ UNCHANGED <<breaker_vars, now, store_vars, issued, nreq, session_vars, answered>>

ClientReturn(p) ==
    /\ pc[p] = "cwr_return"
    /\ req[p].func = "client"
    /\ pc' = [pc EXCEPT ![p] = "idle"]
    /\ req' = [req EXCEPT ![p] = BlankReq]
    /\ obs' = [obs EXCEPT ![p] = BlankObs]
    /\ UNCHANGED <<breaker_vars, now, store_vars, issued, nreq, session_vars, answered>>

NextClient ==
    \/ ClientCall("t1")
    \/ CwrLoop("t1")
    \/ CpsEnter("t1")
    \/ CpsRequest("t1")
    \/ CpsRecord("t1")
    \/ CwrExcept("t1")
    \/ CwrWake("t1")
    \/ ClientReturn("t1")
    \/ Tick(Instants)

SpecClient == Init /\ [][NextClient]_vars

(***************************************************************************)
(* create_order (POST /api/orders)                                         *)
(***************************************************************************)
Users == {"u1", "u2"}
ProductIds == {"P1"}
Quantities == {1, 2}

Store == [orders |-> orders, order_id_counter |-> order_id_counter,
          user_order_history |-> user_order_history]

\* lines 466-514: the start time is taken, the body parsed, the customer
\* classified, and the fetch of the product handed to call_with_retry
create_order_entry(p, u, pid, q) ==
    /\ req' = [req EXCEPT ![p] =
                  [BlankReq EXCEPT !.user_id = u, !.product_id = pid,
                                   !.quantity = q,
                                   !.func = "fetch_product",
                                   !.method = "GET",
                                   !.max_retries = default_max_retries,
                                   !.start_time = now]]
    /\ known_users' = known_users \cup {u}
    /\ obs' = [obs EXCEPT ![p] =
                  [BlankObs EXCEPT !.snap = Store,
                                   !.trail = <<"classify", "fetch_product">>]]
    /\ pc' = [pc EXCEPT ![p] = "cwr_loop"]

\* a create-order request whose body names user_id, product_id and quantity
StartRequestWith(p, limit, quantities) ==
    /\ pc[p] = "idle"
    /\ nreq < limit
    /\ \E u \in Users, pid \in ProductIds, q \in quantities :
           create_order_entry(p, u, pid, q)
    /\ nreq' = nreq + 1
    /\ UNCHANGED <<breaker_vars, now, orders, order_id_counter,
                   user_order_history, issued, session_vars,
                   answered>>

\* a create-order request for one of the usual quantities
StartRequest(p, limit) == StartRequestWith(p, limit, Quantities)

\* the error response of a terminal failure
Failure(status, reason, requested, available, lost) ==
    [status |-> status, reason |-> reason, order_id |-> NoOrderId,
     requested |-> requested, available |-> available, lost_revenue |-> lost,
     order |-> NoOrder, refund |-> 0]

\* the tags of one order_processing_time_histogram.record call
Observation(status, reason) == [status |-> status, reason |-> reason]

\* one failed_transaction_revenue_counter.add call
LostRevenue(amount, reason) == [amount |-> amount, reason |-> reason]

\* product_data['price'] * quantity (lines 587, 634, 695)
lost_revenue_of_one_unit(price, quantity) == price

lost_revenue(price, quantity) == price * quantity

\* `if processing_time > 2.0` (lines 528, 559, 605, 627, 666, 712, 732, 799,
\* 833)
sla_violated_at_threshold(processing_time) == processing_time >= sla_threshold

sla_violated(processing_time) == processing_time > sla_threshold

\* the metrics an exit path records before its return statement: the
\* histogram observations, the lost revenue, and the SLA violation, tagged
\* sla_reason, when the time since line 466 exceeds the threshold
Record(p, observations, losses, sla_reason) ==
    LET processing_time == now - req[p].start_time IN
    obs' = [obs EXCEPT
               ![p].hist = @ \o observations,
               ![p].lost = @ \o losses,
               ![p].processing_time = processing_time,
               ![p].sla = IF sla_violated(processing_time)
                          THEN Append(@, sla_reason) ELSE @]

\* the handler returns this response
Return(p, resp) ==
    /\ pc' = [pc EXCEPT ![p] = "done"]
    /\ req' = [req EXCEPT ![p].response = resp, ![p].result = NoValue]

\* lines 822-836: except Exception records the request as internal_error
outer_except_records_nothing == <<>>

outer_except_records == <<Observation("failed", "internal_error")>>

InternalError(p) ==
    /\ Return(p, Failure(500, "internal_error", 0, 0, 0))
    /\ Record(p, outer_except_records, <<>>, "internal_error")

\* a further dependency call is handed to call_with_retry
CallNext(p, func, method, price, stock) ==
    /\ pc' = [pc EXCEPT ![p] = "cwr_loop"]
    /\ req' = [req EXCEPT ![p].func = func, ![p].method = method,
                          ![p].attempt = 0, ![p].last_exception = NoValue,
                          ![p].result = NoValue, ![p].price = price,
                          ![p].stock = stock]
    /\ obs' = [obs EXCEPT ![p].calls = 0, ![p].retries = 0, ![p].sleeps = 0,
                          ![p].rejected = 0, ![p].permitted = FALSE,
                          ![p].net = 0, ![p].recs = 0, ![p].answer = 0,
                          ![p].trail = Append(@, func)]

\* response.raise_for_status() raises HTTPError
raises_for_status_never(status) == FALSE

raises_for_status(status) == status >= 400

\* lines 514-562 and 822-836: what became of fetch_product
AfterFetch(p) ==
    /\ pc[p] = "cwr_return"
    /\ req[p].func = "fetch_product"
    /\ LET v == req[p].result
           failed == /\ Return(p, Failure(503, "service_communication_error",
                                          0, 0, 0))
                     /\ Record(p, <<Observation("failed",
                                        "service_communication_error")>>, <<>>,
                      "service_communication_error")
       IN
       IF v.kind = "exception"
       THEN IF IsRequestException(v.type) THEN failed ELSE InternalError(p)
       ELSE IF v.status = 404
       THEN /\ Return(p, Failure(404, "product_not_found", 0, 0, 0))
            /\ Record(p, <<Observation("failed", "product_not_found")>>, <<>>,
                      "product_not_found")
       ELSE IF raises_for_status(v.status)
       THEN failed
       ELSE CallNext(p, "check_inventory", "GET", v.price, 0)
    /\ UNCHANGED <<breaker_vars, now, store_vars, issued, nreq, session_vars, answered>>

\* inventory_data['stock'] < quantity
insufficient_stock(stock, quantity) == stock < quantity

\* lines 575-630 and 822-836: what became of check_inventory
AfterInventory(p) ==
    /\ pc[p] = "cwr_return"
    /\ req[p].func = "check_inventory"
    /\ LET v == req[p].result
           failed == /\ Return(p, Failure(503, "inventory_check_failed", 0, 0, 0))
                     /\ Record(p, <<Observation("failed",
                                        "inventory_check_failed")>>, <<>>,
                      "inventory_check_failed")
           lost == lost_revenue(req[p].price, req[p].quantity)
       IN
       IF v.kind = "exception"
       THEN IF IsRequestException(v.type) THEN failed ELSE InternalError(p)
       ELSE IF raises_for_status(v.status)
       THEN failed
       ELSE IF insufficient_stock(v.stock, req[p].quantity)
       THEN /\ Return(p, Failure(400, "insufficient_stock", req[p].quantity,
                                 v.stock, lost))
            /\ Record(p, <<Observation("failed", "insufficient_stock")>>,
                      <<LostRevenue(lost, "insufficient_stock")>>,
                      "insufficient_stock")
       ELSE /\ pc' = [pc EXCEPT ![p] = "co_payment"]
            /\ req' = [req EXCEPT ![p].stock = v.stock, ![p].result = NoValue]
            /\ obs' = [obs EXCEPT ![p].trail = Append(@, "payment")]
    /\ UNCHANGED <<breaker_vars, now, store_vars, issued, nreq, session_vars, answered>>

\* lines 633-687: simulate_processing, then the payment is declined
\* (random.random() < 0.03) or the purchase handed to call_with_retry
Payment(p) ==
    /\ pc[p] = "co_payment"
    /\ LET total_amount == lost_revenue(req[p].price, req[p].quantity) IN
       \/ /\ Return(p, Failure(402, "payment_declined", 0, 0, total_amount))
          /\ Record(p, <<Observation("failed", "payment_declined")>>,
                    <<LostRevenue(total_amount, "payment_declined")>>,
                      "payment_declined")
       \/ CallNext(p, "complete_purchase", "POST", req[p].price, req[p].stock)
    /\ UNCHANGED <<breaker_vars, now, store_vars, issued, nreq, session_vars, answered>>

\* lines 687-735 and 822-836: what became of complete_purchase
AfterPurchase(p) ==
    /\ pc[p] = "cwr_return"
    /\ req[p].func = "complete_purchase"
    /\ LET v == req[p].result
           total_amount == lost_revenue(req[p].price, req[p].quantity)
       IN
       IF v.kind = "exception"
       THEN IF IsRequestException(v.type)
            THEN /\ Return(p, Failure(503, "purchase_completion_failed",
                                      0, 0, 0))
                 /\ Record(p, <<Observation("failed",
                                    "purchase_completion_failed")>>, <<>>,
                      "purchase_completion_failed")
            ELSE InternalError(p)
       ELSE IF v.status # 200
       THEN /\ Return(p, Failure(400, "purchase_failed", 0, 0, total_amount))
            /\ Record(p, <<Observation("failed", "purchase_failed")>>,
                      <<LostRevenue(total_amount, "purchase_failed")>>,
                      "purchase_failed")
       ELSE /\ pc' = [pc EXCEPT ![p] = "co_read_id"]
            /\ req' = [req EXCEPT ![p].result = NoValue]
            /\ obs' = [obs EXCEPT ![p].trail = Append(@, "commit")]
    /\ UNCHANGED <<breaker_vars, now, store_vars, issued, nreq, session_vars, answered>>

\* line 738: order_id = f'ORD-{order_id_counter:05d}'
CommitReadId(p) ==
    /\ pc[p] = "co_read_id"
    /\ pc' = [pc EXCEPT ![p] = "co_load"]
    /\ req' = [req EXCEPT ![p].order_id = format_order_id(order_id_counter)]
    /\ UNCHANGED <<breaker_vars, now, store_vars, obs, issued, nreq, session_vars, answered>>

\* line 739, order_id_counter += 1: the global is loaded ...
CommitLoad(p) ==
    /\ pc[p] = "co_load"
    /\ pc' = [pc EXCEPT ![p] = "co_store"]
    /\ req' = [req EXCEPT ![p].loaded = order_id_counter]
    /\ UNCHANGED <<breaker_vars, now, store_vars, obs, issued, nreq, session_vars, answered>>

next_counter_stuck(c) == c

next_counter(c) == c + 1

\* ... and the sum stored
CommitStore(p) ==
    /\ pc[p] = "co_store"
    /\ pc' = [pc EXCEPT ![p] = "co_insert"]
    /\ order_id_counter' = next_counter(req[p].loaded)
    /\ UNCHANGED <<breaker_vars, now, orders, user_order_history, known_users,
                   req, obs, issued, nreq, session_vars, answered>>

order_record_with_unit_total(r, t) ==
    [order_id |-> r.order_id, user_id |-> r.user_id,
     product_id |-> r.product_id, quantity |-> r.quantity,
     price_per_unit |-> r.price, total_amount |-> r.price,
     status |-> "confirmed",
     status_history |-> <<[status |-> "created", timestamp |-> t],
                          [status |-> "confirmed", timestamp |-> t]>>,
     created_at |-> t, updated_at |-> t]

\* lines 741-757 (product_name and estimated_delivery are left out)
order_record_without_confirmed_entry(r, t) ==
    [order_id |-> r.order_id, user_id |-> r.user_id,
     product_id |-> r.product_id, quantity |-> r.quantity,
     price_per_unit |-> r.price, total_amount |-> r.price * r.quantity,
     status |-> "confirmed",
     status_history |-> <<[status |-> "created", timestamp |-> t]>>,
     created_at |-> t, updated_at |-> t]

order_record(r, t) ==
    [order_id |-> r.order_id, user_id |-> r.user_id,
     product_id |-> r.product_id, quantity |-> r.quantity,
     price_per_unit |-> r.price, total_amount |-> r.price * r.quantity,
     status |-> "confirmed",
     status_history |-> <<[status |-> "created", timestamp |-> t],
                          [status |-> "confirmed", timestamp |-> t]>>,
     created_at |-> t, updated_at |-> t]

\* lines 741-759: orders[order_id] = order_record
CommitInsert(p) ==
    /\ pc[p] = "co_insert"
    /\ pc' = [pc EXCEPT ![p] = "co_history"]
    /\ LET rec == order_record(req[p], now) IN
       /\ req' = [req EXCEPT ![p].order_record = rec]
       /\ orders' = [id \in DOMAIN orders \cup {req[p].order_id} |->
                        IF id = req[p].order_id THEN rec ELSE orders[id]]
    /\ UNCHANGED <<breaker_vars, now, order_id_counter, user_order_history,
                   known_users, obs, issued, nreq, session_vars, answered>>

\* lines 762-764: user_order_history[user_id].append(order_id)
CommitHistory(p) ==
    /\ pc[p] = "co_history"
    /\ pc' = [pc EXCEPT ![p] = "co_respond"]
    /\ LET u == req[p].user_id
           old == IF u \in DOMAIN user_order_history
                  THEN user_order_history[u] ELSE <<>> IN
       user_order_history' =
           [x \in DOMAIN user_order_history \cup {u} |->
               IF x = u THEN Append(old, req[p].order_id)
               ELSE user_order_history[x]]
    /\ UNCHANGED <<breaker_vars, now, orders, order_id_counter, known_users,
                   req, obs, issued, nreq, session_vars, answered>>

internal_error_after_commit(rec) ==
    [status |-> 500, reason |-> "internal_error", order_id |-> NoOrderId,
     requested |-> 0, available |-> 0, lost_revenue |-> 0,
     order |-> NoOrder, refund |-> 0]

\* line 820: return jsonify({'order': order_record}), 201
success_response(rec) ==
    [status |-> 201, reason |-> "success", order_id |-> rec.order_id,
     requested |-> 0, available |-> 0, lost_revenue |-> 0,
     order |-> rec, refund |-> 0]

\* lines 766-820: metrics, log and the 201 response
Respond(p) ==
    /\ pc[p] = "co_respond"
    /\ LET resp == success_response(req[p].order_record) IN
       /\ Return(p, resp)
       /\ Record(p, <<Observation("success", "-")>>, <<>>, "slow_processing")
       /\ issued' = IF resp.status = 201 THEN Append(issued, resp.order_id)
                    ELSE issued
       /\ answered' = IF resp.status = 201 THEN Append(answered, resp.order)
                      ELSE answered
    /\ UNCHANGED <<breaker_vars, now, store_vars, nreq, session_vars>>

\* the response has been sent; the thread takes the next request
Finish(p) ==
    /\ pc[p] = "done"
    /\ pc' = [pc EXCEPT ![p] = "idle"]
    /\ req' = [req EXCEPT ![p] = BlankReq]
    /\ obs' = [obs EXCEPT ![p] = BlankObs]
    /\ UNCHANGED <<breaker_vars, now, store_vars, issued, nreq, session_vars, answered>>

\* one step of thread p inside call_with_retry / call_products_service
DependencyStep(p) ==
    \/ CwrLoop(p)
    \/ CpsEnter(p)
    \/ CpsRequest(p)
    \/ CpsRecord(p)
    \/ CwrExcept(p)
    \/ CwrWake(p)

\* one step of thread p in create_order itself
OrderStep(p) ==
    \/ AfterFetch(p)
    \/ AfterInventory(p)
    \/ Payment(p)
    \/ AfterPurchase(p)
    \/ CommitReadId(p)
    \/ CommitLoad(p)
    \/ CommitStore(p)
    \/ CommitInsert(p)
    \/ CommitHistory(p)
    \/ Respond(p)
    \/ Finish(p)

(***************************************************************************)
(* Spec: requests are handled one after another (a single thread)          *)
(***************************************************************************)
Next ==
    \/ StartRequest("t1", MaxRequests)
    \/ DependencyStep("t1")
    \/ OrderStep("t1")
    \/ Tick(CoarseInstants)

Spec == Init /\ [][Next]_vars

(***************************************************************************)
(* SpecConc: requests are handled by the threads of the server, one        *)
(* request per thread at a time, interleaved at the steps above. The       *)
(* dependency is healthy here: every request is answered with status 200   *)
(* (its failures are the subject of Spec).                                 *)
(***************************************************************************)
HealthyRequest(p) ==
    /\ CpsRequest(p)
    /\ req'[p].outcome.kind = "response"
    /\ req'[p].outcome.status = 200

NextConc ==
    \E p \in Threads :
        \/ StartRequest(p, MaxConcRequests)
        \/ CwrLoop(p)
        \/ CpsEnter(p)
        \/ HealthyRequest(p)
        \/ CpsRecord(p)
        \/ OrderStep(p)

SpecConc == Init /\ [][NextConc]_vars

(***************************************************************************)
(* SpecCBConc: the threads of the server inside call_products_service,     *)
(* each running the CircuitBreaker methods it calls one statement at a     *)
(* time: can_execute, then the request, then record_success or             *)
(* record_failure. The methods take no lock.                               *)
(***************************************************************************)
\* thread p moves to position l; its frame and what it has done stay
Goto(p, l) ==
    /\ pc' = [pc EXCEPT ![p] = l]
    /\ UNCHANGED <<req, obs>>

\* the breaker fields are written by these steps; the rest stays
BreakerStepFrame ==
    UNCHANGED <<cb_last, probes, consec, now, store_vars, issued, nreq,
                session_vars, answered>>

\* line 339: call_products_service calls can_execute();
\* line 258: if self.state == 'closed': return True
CcReadClosed(p) ==
    /\ pc[p] = "idle"
    /\ Goto(p, IF products_circuit_breaker.state = "closed"
               THEN "cc_request" ELSE "cc_260")
    /\ UNCHANGED products_circuit_breaker
    /\ BreakerStepFrame

\* line 260: if self.state == 'open': ... ; line 265: return True
CcReadOpen(p) ==
    /\ pc[p] = "cc_260"
    /\ Goto(p, IF products_circuit_breaker.state = "open"
               THEN "cc_261" ELSE "cc_request")
    /\ UNCHANGED products_circuit_breaker
    /\ BreakerStepFrame

\* line 261: if time.time() - self.last_failure_time > self.reset_timeout;
\* line 264: return False, and call_products_service raises
CcElapsed(p) ==
    /\ pc[p] = "cc_261"
    /\ Goto(p, IF products_circuit_breaker.last_failure_time = None
               THEN "idle"
               ELSE IF now - products_circuit_breaker.last_failure_time
                           > reset_timeout
               THEN "cc_262" ELSE "idle")
    /\ UNCHANGED products_circuit_breaker
    /\ BreakerStepFrame

\* lines 262-263: self.state = 'half-open'; return True
CcHalfOpen(p) ==
    /\ pc[p] = "cc_262"
    /\ products_circuit_breaker' =
           [products_circuit_breaker EXCEPT !.state = "half-open"]
    /\ Goto(p, "cc_request")
    /\ BreakerStepFrame

\* lines 351-369: the request is answered, or raises
CcRequest(p) ==
    /\ pc[p] = "cc_request"
    /\ \/ Goto(p, "rs_268")
       \/ /\ products_circuit_breaker.failures < MaxFailures
          /\ Goto(p, "rf_load")
    /\ UNCHANGED products_circuit_breaker
    /\ BreakerStepFrame

\* line 268: self.failures = 0
RsReset(p) ==
    /\ pc[p] = "rs_268"
    /\ products_circuit_breaker' =
           [products_circuit_breaker EXCEPT !.failures = 0]
    /\ Goto(p, "rs_269")
    /\ BreakerStepFrame

\* line 269: self.state = 'closed'
RsClose(p) ==
    /\ pc[p] = "rs_269"
    /\ products_circuit_breaker' =
           [products_circuit_breaker EXCEPT !.state = "closed"]
    /\ Goto(p, "idle")
    /\ BreakerStepFrame

\* line 272, self.failures += 1: the attribute is loaded ...
RfLoad(p) ==
    /\ pc[p] = "rf_load"
    /\ pc' = [pc EXCEPT ![p] = "rf_store"]
    /\ req' = [req EXCEPT ![p].loaded = products_circuit_breaker.failures]
    /\ UNCHANGED <<products_circuit_breaker, obs>>
    /\ BreakerStepFrame

\* ... and the sum stored
RfStore(p) ==
    /\ pc[p] = "rf_store"
    /\ products_circuit_breaker' =
           [products_circuit_breaker EXCEPT !.failures = req[p].loaded + 1]
    /\ Goto(p, "rf_273")
    /\ BreakerStepFrame

\* line 273: self.last_failure_time = time.time()
RfStamp(p) ==
    /\ pc[p] = "rf_273"
    /\ products_circuit_breaker' =
           [products_circuit_breaker EXCEPT !.last_failure_time = now]
    /\ Goto(p, "rf_274")
    /\ BreakerStepFrame

\* line 274: if self.failures >= self.failure_threshold
RfCheck(p) ==
    /\ pc[p] = "rf_274"
    /\ Goto(p, IF products_circuit_breaker.failures >= failure_threshold
               THEN "rf_275" ELSE "idle")
    /\ UNCHANGED products_circuit_breaker
    /\ BreakerStepFrame

\* line 275: self.state = 'open'
RfOpen(p) ==
    /\ pc[p] = "rf_275"
    /\ products_circuit_breaker' =
           [products_circuit_breaker EXCEPT !.state = "open"]
    /\ Goto(p, "idle")
    /\ BreakerStepFrame

NextCBConc ==
    \/ \E p \in Threads :
           \/ CcReadClosed(p)
           \/ CcReadOpen(p)
           \/ CcElapsed(p)
           \/ CcHalfOpen(p)
           \/ CcRequest(p)
           \/ RsReset(p)
           \/ RsClose(p)
           \/ RfLoad(p)
           \/ RfStore(p)
           \/ RfStamp(p)
           \/ RfCheck(p)
           \/ RfOpen(p)
    \/ Tick(Instants)

SpecCBConc == Init /\ [][NextCBConc]_vars

(***************************************************************************)
(* Sessions: update_session (called by before_request) and the gauge       *)
(* callback get_active_sessions_count                                      *)
(***************************************************************************)
\* timedelta(minutes=m), in seconds
timedelta_minutes(m) == m * SecondsPerMinute

\* the instants at which the clock is read in SpecSessions
SessionInstants ==
    {0, 1, timedelta_minutes(SESSION_TIMEOUT_MINUTES),
     timedelta_minutes(SESSION_TIMEOUT_MINUTES) + 1,
     2 * timedelta_minutes(SESSION_TIMEOUT_MINUTES) + 1}

\* f"session-{user_id}"
session_id_of(user_id) == [prefix |-> "session-", user_id |-> user_id]

\* lines 321-335
update_session_forgets_others(sessions, user_id, current_time) ==
    LET session_id == session_id_of(user_id) IN
    [sid \in {session_id} |->
        IF session_id \in DOMAIN sessions
        THEN [sessions[session_id] EXCEPT !.last_activity = current_time,
                                          !.request_count = @ + 1]
        ELSE [user_id |-> user_id, started_at |-> current_time,
              last_activity |-> current_time, request_count |-> 1]]

update_session(sessions, user_id, current_time) ==
    LET session_id == session_id_of(user_id) IN
    IF session_id \in DOMAIN sessions
    THEN [sessions EXCEPT ![session_id].last_activity = current_time,
                          ![session_id].request_count = @ + 1]
    ELSE [sid \in DOMAIN sessions \cup {session_id} |->
             IF sid = session_id
             THEN [user_id |-> user_id, started_at |-> current_time,
                   last_activity |-> current_time, request_count |-> 1]
             ELSE sessions[sid]]

\* line 148: current_time - data['last_activity'] > timedelta(minutes=...)
session_expired_at_timeout(data, current_time) ==
    current_time - data.last_activity
        >= timedelta_minutes(SESSION_TIMEOUT_MINUTES)

session_expired(data, current_time) ==
    current_time - data.last_activity
        > timedelta_minutes(SESSION_TIMEOUT_MINUTES)

\* lines 143-152: the expired sessions are deleted, the rest counted
get_active_sessions_count(sessions, current_time) ==
    LET expired == {sid \in DOMAIN sessions :
                       session_expired(sessions[sid], current_time)}
        kept == [sid \in DOMAIN sessions \ expired |-> sessions[sid]]
    IN [ret |-> Cardinality(DOMAIN kept), sessions |-> kept]

\* lines 396-404: a request whose JSON body names user_id arrives
BeforeRequest ==
    /\ \E u \in Users :
           /\ session_id_of(u) \in DOMAIN active_sessions =>
                  active_sessions[session_id_of(u)].request_count
                      < MaxSessionRequests
           /\ active_sessions' = update_session(active_sessions, u, now)
    /\ UNCHANGED <<breaker_vars, now, store_vars, thread_vars, issued, nreq,
                   sess_last, answered>>

\* the metric reader observes the active_user_sessions gauge
GetActiveSessionsCount ==
    /\ LET r == get_active_sessions_count(active_sessions, now) IN
       /\ active_sessions' = r.sessions
       /\ sess_last' = [ret |-> r.ret, pre |-> active_sessions,
                        post |-> r.sessions, at |-> now]
    /\ UNCHANGED <<breaker_vars, now, store_vars, thread_vars, issued, nreq,
                   answered>>

NextSessions ==
    \/ BeforeRequest
    \/ GetActiveSessionsCount
    \/ Tick(SessionInstants)

SpecSessions == Init /\ [][NextSessions]_vars

(***************************************************************************)
(* get_order (GET /api/orders/<order_id>) and                              *)
(* cancel_order (POST /api/orders/<order_id>/cancel)                       *)
(***************************************************************************)
\* the order ids asked for
LookupIds == {format_order_id(n) : n \in 1..2}

\* the quantities a request body may carry: line 472 takes any of them
AcceptedQuantities == {-1, 0, 1, 2}

\* a request for order oid arrives at handler func
StartLookup(p, limit, func, entry) ==
    /\ pc[p] = "idle"
    /\ nreq < limit
    /\ \E oid \in LookupIds :
           req' = [req EXCEPT ![p] =
                      [BlankReq EXCEPT !.func = func, !.target = oid]]
    /\ obs' = [obs EXCEPT ![p] = [BlankObs EXCEPT !.snap = Store]]
    /\ pc' = [pc EXCEPT ![p] = entry]
    /\ nreq' = nreq + 1
    /\ UNCHANGED <<breaker_vars, now, store_vars, issued, session_vars,
                   answered>>

StartGet(p, limit) == StartLookup(p, limit, "get_order", "go_lookup")

StartCancel(p, limit) == StartLookup(p, limit, "cancel_order", "ca_lookup")

\* line 864: return jsonify({'order': order})
order_response(rec) ==
    [status |-> 200, reason |-> "success", order_id |-> rec.order_id,
     requested |-> 0, available |-> 0, lost_revenue |-> 0,
     order |-> rec, refund |-> 0]

\* lines 839-864
GetOrder(p) ==
    /\ pc[p] = "go_lookup"
    /\ Return(p, IF req[p].target \in DOMAIN orders
                 THEN order_response(orders[req[p].target])
                 ELSE Failure(404, "order_not_found", 0, 0, 0))
    /\ UNCHANGED <<breaker_vars, now, store_vars, obs, issued, nreq,
                   session_vars, answered>>

\* lines 945-951: order = orders.get(order_id)
CaLookup(p) ==
    /\ pc[p] = "ca_lookup"
    /\ IF req[p].target \in DOMAIN orders
       THEN /\ pc' = [pc EXCEPT ![p] = "ca_check"]
            /\ UNCHANGED req
       ELSE Return(p, Failure(404, "order_not_found", 0, 0, 0))
    /\ UNCHANGED <<breaker_vars, now, store_vars, obs, issued, nreq,
                   session_vars, answered>>

\* line 953: order['status'] == 'cancelled'
already_cancelled_never(status) == FALSE

already_cancelled(status) == status = "cancelled"

\* lines 953-961: the status guards
CaCheck(p) ==
    /\ pc[p] = "ca_check"
    /\ LET status == orders[req[p].target].status IN
       IF already_cancelled(status)
       THEN Return(p, Failure(400, "already_cancelled", 0, 0, 0))
       ELSE IF status = "shipped"
       THEN Return(p, Failure(400, "already_shipped", 0, 0, 0))
       ELSE /\ pc' = [pc EXCEPT ![p] = "ca_process"]
            /\ UNCHANGED req
    /\ UNCHANGED <<breaker_vars, now, store_vars, obs, issued, nreq,
                   session_vars, answered>>

\* lines 964-972: simulate_processing, then the cancellation fails
\* (random.random() < 0.02) or goes on
CaProcess(p) ==
    /\ pc[p] = "ca_process"
    /\ \/ Return(p, Failure(500, "cancellation_failed", 0, 0, 0))
       \/ /\ pc' = [pc EXCEPT ![p] = "ca_write"]
          /\ UNCHANGED req
    /\ UNCHANGED <<breaker_vars, now, store_vars, obs, issued, nreq,
                   session_vars, answered>>

\* lines 975-980 applied to the stored record
cancelled_record_clears_total(rec, t) ==
    [rec EXCEPT !.status = "cancelled", !.updated_at = t,
                !.total_amount = 0,
                !.status_history =
                    Append(@, [status |-> "cancelled", timestamp |-> t])]

cancelled_record_keeps_history(rec, t) ==
    [rec EXCEPT !.status = "cancelled", !.updated_at = t]

cancelled_record(rec, t) ==
    [rec EXCEPT !.status = "cancelled", !.updated_at = t,
                !.status_history =
                    Append(@, [status |-> "cancelled", timestamp |-> t])]

\* lines 974-980: the record is marked cancelled in place
CaWrite(p) ==
    /\ pc[p] = "ca_write"
    /\ pc' = [pc EXCEPT ![p] = "ca_respond"]
    /\ req' = [req EXCEPT ![p].previous_status = orders[req[p].target].status]
    /\ orders' = [orders EXCEPT ![req[p].target] = cancelled_record(@, now)]
    /\ UNCHANGED <<breaker_vars, now, order_id_counter, user_order_history,
                   known_users, obs, issued, nreq, session_vars, answered>>

\* lines 1008-1013: the response of a cancellation
cancel_response(rec) ==
    [status |-> 200, reason |-> "success", order_id |-> rec.order_id,
     requested |-> 0, available |-> 0, lost_revenue |-> 0,
     order |-> NoOrder, refund |-> rec.total_amount]

\* lines 982-1013: the cancellation metrics and the response
CaRespond(p) ==
    /\ pc[p] = "ca_respond"
    /\ Return(p, cancel_response(orders[req[p].target]))
    /\ obs' = [obs EXCEPT ![p].cancels =
                   Append(@, [previous_status |-> req[p].previous_status])]
    /\ UNCHANGED <<breaker_vars, now, store_vars, issued, nreq, session_vars,
                   answered>>

\* one step of thread p in cancel_order
CancelStep(p) ==
    \/ CaLookup(p)
    \/ CaCheck(p)
    \/ CaProcess(p)
    \/ CaWrite(p)
    \/ CaRespond(p)

\* one step of thread p in a dependency call that is answered 200
HealthyStep(p) ==
    \/ CwrLoop(p)
    \/ CpsEnter(p)
    \/ HealthyRequest(p)
    \/ CpsRecord(p)

(***************************************************************************)
(* track_order (GET /api/orders/<order_id>/track) and                      *)
(* get_user_orders (GET /api/orders/user/<user_id>). The requests carry no *)
(* JSON body, so before_request leaves the sessions alone.                 *)
(***************************************************************************)
StartTrack(p, limit) == StartLookup(p, limit, "track_order", "to_lookup")

\* f'TRK-{order_id[4:]}': the digits of the order id behind a new prefix
tracking_number(order_id) == [prefix |-> "TRK-", digits |-> order_id.digits]

\* lines 883-899: the tracking info of the response
tracking_response(rec, order_id, t) ==
    [status |-> 200, reason |-> "success", order_id |-> order_id,
     requested |-> 0, available |-> 0, lost_revenue |-> 0,
     order |-> [order_id |-> order_id, current_status |-> rec.status,
                status_history |-> rec.status_history,
                tracking_number |-> tracking_number(order_id),
                last_update |-> t],
     refund |-> 0]

\* lines 867-899
TrackOrder(p) ==
    /\ pc[p] = "to_lookup"
    /\ Return(p, IF req[p].target \in DOMAIN orders
                 THEN tracking_response(orders[req[p].target],
                                        req[p].target, now)
                 ELSE Failure(404, "order_not_found", 0, 0, 0))
    /\ UNCHANGED <<breaker_vars, now, store_vars, obs, issued, nreq,
                   session_vars, answered>>

\* GET /api/orders/user/<user_id> arrives
StartList(p, limit) ==
    /\ pc[p] = "idle"
    /\ nreq < limit
    /\ \E u \in Users :
           req' = [req EXCEPT ![p] =
                      [BlankReq EXCEPT !.func = "get_user_orders",
                                       !.user_id = u]]
    /\ obs' = [obs EXCEPT ![p] = [BlankObs EXCEPT !.snap = Store]]
    /\ pc' = [pc EXCEPT ![p] = "uo_list"]
    /\ nreq' = nreq + 1
    /\ UNCHANGED <<breaker_vars, now, store_vars, issued, session_vars,
                   answered>>

RECURSIVE user_orders_of(_, _)
\* line 915: [orders[oid] for oid in history if oid in orders]
user_orders_of(history, stored) ==
    IF history = <<>> THEN <<>>
    ELSE (IF Head(history) \in DOMAIN stored
          THEN <<stored[Head(history)]>> ELSE <<>>)
         \o user_orders_of(Tail(history), stored)

RECURSIVE total_spent_of(_)
\* line 918: sum(o['total_amount'] for o in user_orders)
total_spent_of(user_orders) ==
    IF user_orders = <<>> THEN 0
    ELSE Head(user_orders).total_amount + total_spent_of(Tail(user_orders))

\* lines 928-934: the response; average_order_value is the quotient
\* total_spent / total, kept as the pair, or 0 for no orders
user_orders_response(u, user_orders) ==
    LET total_spent == total_spent_of(user_orders) IN
    [status |-> 200, reason |-> "success", order_id |-> NoOrderId,
     requested |-> 0, available |-> 0, lost_revenue |-> 0,
     order |-> [user_id |-> u, orders |-> user_orders,
                total |-> Len(user_orders), total_spent |-> total_spent,
                average_order_value |->
                    IF user_orders # <<>>
                    THEN [num |-> total_spent, den |-> Len(user_orders)]
                    ELSE [num |-> 0, den |-> 1]],
     refund |-> 0]

\* lines 902-934: the session of the user is updated, the orders are read
GetUserOrders(p) ==
    /\ pc[p] = "uo_list"
    /\ active_sessions' = update_session(active_sessions, req[p].user_id, now)
    /\ LET u == req[p].user_id
           history == IF u \in DOMAIN user_order_history
                      THEN user_order_history[u] ELSE <<>>
       IN Return(p, user_orders_response(u, user_orders_of(history, orders)))
    /\ UNCHANGED <<breaker_vars, now, store_vars, obs, issued, nreq,
                   sess_last, answered>>

(***************************************************************************)
(* SpecReads: create-order, get_order, track_order, get_user_orders and    *)
(* cancel_order requests handled one after another, with a healthy         *)
(* dependency, while the clock advances                                    *)
(***************************************************************************)
NextReads ==
    \/ StartRequest("t1", MaxReadRequests)
    \/ HealthyStep("t1")
    \/ OrderStep("t1")
    \/ StartGet("t1", MaxReadRequests)
    \/ GetOrder("t1")
    \/ StartTrack("t1", MaxReadRequests)
    \/ TrackOrder("t1")
    \/ StartList("t1", MaxReadRequests)
    \/ GetUserOrders("t1")
    \/ StartCancel("t1", MaxReadRequests)
    \/ CancelStep("t1")
    \/ Tick(CoarseInstants)

SpecReads == Init /\ [][NextReads]_vars

(***************************************************************************)
(* SpecStore: create-order, get_order and cancel_order requests handled    *)
(* one after another, with a healthy dependency, while the clock advances  *)
(***************************************************************************)
NextStore ==
    \/ StartRequestWith("t1", MaxStoreRequests, AcceptedQuantities)
    \/ HealthyStep("t1")
    \/ OrderStep("t1")
    \/ StartGet("t1", MaxStoreRequests)
    \/ GetOrder("t1")
    \/ StartCancel("t1", MaxStoreRequests)
    \/ CancelStep("t1")
    \/ Tick(CoarseInstants)

SpecStore == Init /\ [][NextStore]_vars

(***************************************************************************)
(* SpecStoreConc: a create-order request, then cancel_order requests       *)
(* handled by the threads of the server, interleaved at the steps above    *)
(***************************************************************************)
NextStoreConc ==
    \E p \in Threads :
        \/ StartRequest(p, MaxStoreCreates)
        \/ HealthyStep(p)
        \/ OrderStep(p)
        \/ StartCancel(p, MaxCancelRequests)
        \/ CancelStep(p)

SpecStoreConc == Init /\ [][NextStoreConc]_vars

(***************************************************************************)
(* SpecSessionsConc: get_active_sessions_count and update_session run by   *)
(* concurrent threads (the metric reader thread, the handler of / and the  *)
(* before_request hooks of the server threads), one statement at a time.   *)
(* Neither function takes a lock. The dict is iterated in any order.       *)
(***************************************************************************)
\* the instants at which the clock is read in SpecSessionsConc
SweepInstants == {0, timedelta_minutes(SESSION_TIMEOUT_MINUTES) + 1}

SessionStepFrame ==
    UNCHANGED <<breaker_vars, now, store_vars, issued, nreq, sess_last,
                answered>>

\* the statement of thread p raises: the call ends with the exception
SessionRaise(p, type) ==
    /\ pc' = [pc EXCEPT ![p] = "done"]
    /\ req' = [req EXCEPT ![p].raised = ExceptionValue(0, type)]

\* lines 145-147: the clock is read and the iteration over the dict starts
SwBegin(p) ==
    /\ pc[p] = "idle"
    /\ pc' = [pc EXCEPT ![p] = "sw_iter"]
    /\ req' = [req EXCEPT ![p].func = "get_active_sessions_count",
                          ![p].current_time = now,
                          ![p].expired = <<>>,
                          ![p].todo = DOMAIN active_sessions,
                          ![p].size = Cardinality(DOMAIN active_sessions)]
    /\ UNCHANGED <<obs, active_sessions>>
    /\ SessionStepFrame

\* lines 147-149: the iterator is advanced: it raises RuntimeError when the
\* dict has changed size since the iteration started, else the next item is
\* visited and appended to expired when it is idle for too long
SwNext(p) ==
    /\ pc[p] = "sw_iter"
    /\ LET left == req[p].todo \cap DOMAIN active_sessions IN
       IF Cardinality(DOMAIN active_sessions) # req[p].size
       THEN SessionRaise(p, "RuntimeError")
       ELSE IF left = {}
       THEN /\ pc' = [pc EXCEPT ![p] = "sw_delete"]
            /\ req' = req
       ELSE \E sid \in left :
                /\ pc' = pc
                /\ req' = [req EXCEPT
                       ![p].todo = @ \ {sid},
                       ![p].expired =
                           IF session_expired(active_sessions[sid],
                                              req[p].current_time)
                           THEN Append(@, sid) ELSE @]
    /\ UNCHANGED <<obs, active_sessions>>
    /\ SessionStepFrame

\* lines 150-151: del active_sessions[session_id] for the next collected key;
\* KeyError when the key is not in the dict any more
SwDelete(p) ==
    /\ pc[p] = "sw_delete"
    /\ IF req[p].expired = <<>>
       THEN /\ pc' = [pc EXCEPT ![p] = "sw_return"]
            /\ UNCHANGED <<req, obs, active_sessions>>
       ELSE LET sid == Head(req[p].expired) IN
            IF sid \notin DOMAIN active_sessions
            THEN /\ SessionRaise(p, "KeyError")
                 /\ UNCHANGED <<obs, active_sessions>>
            ELSE /\ active_sessions' =
                        [s \in DOMAIN active_sessions \ {sid} |->
                            active_sessions[s]]
                 /\ obs' = [obs EXCEPT ![p].evicted =
                        Append(@, [session_id |-> sid,
                                   idle |-> now
                                       - active_sessions[sid].last_activity])]
                 /\ req' = [req EXCEPT ![p].expired = Tail(@)]
                 /\ pc' = pc
    /\ SessionStepFrame

\* line 152: return len(active_sessions)
SwReturn(p) ==
    /\ pc[p] = "sw_return"
    /\ pc' = [pc EXCEPT ![p] = "done"]
    /\ req' = [req EXCEPT ![p].count = Cardinality(DOMAIN active_sessions)]
    /\ UNCHANGED <<obs, active_sessions>>
    /\ SessionStepFrame

\* lines 323-326: the session id, the clock, `session_id in active_sessions`
UsBegin(p) ==
    /\ pc[p] = "idle"
    /\ \E u \in Users :
           /\ session_id_of(u) \in DOMAIN active_sessions =>
                  active_sessions[session_id_of(u)].request_count
                      < MaxSessionRequests
           /\ req' = [req EXCEPT ![p].func = "update_session",
                                 ![p].user_id = u,
                                 ![p].current_time = now]
           /\ pc' = [pc EXCEPT ![p] =
                  IF session_id_of(u) \in DOMAIN active_sessions
                  THEN "us_touch" ELSE "us_insert"]
    /\ UNCHANGED <<obs, active_sessions>>
    /\ SessionStepFrame

\* line 327: active_sessions[session_id]['last_activity'] = current_time
UsTouch(p) ==
    /\ pc[p] = "us_touch"
    /\ LET sid == session_id_of(req[p].user_id) IN
       IF sid \notin DOMAIN active_sessions
       THEN /\ SessionRaise(p, "KeyError")
            /\ UNCHANGED active_sessions
       ELSE /\ active_sessions' = [active_sessions EXCEPT
                   ![sid].last_activity = req[p].current_time]
            /\ pc' = [pc EXCEPT ![p] = "us_count"]
            /\ req' = req
    /\ UNCHANGED obs
    /\ SessionStepFrame

\* line 328: active_sessions[session_id]['request_count'] += 1
UsCount(p) ==
    /\ pc[p] = "us_count"
    /\ LET sid == session_id_of(req[p].user_id) IN
       IF sid \notin DOMAIN active_sessions
       THEN /\ SessionRaise(p, "KeyError")
            /\ UNCHANGED active_sessions
       ELSE /\ active_sessions' = [active_sessions EXCEPT
                   ![sid].request_count = @ + 1]
            /\ pc' = [pc EXCEPT ![p] = "done"]
            /\ req' = req
    /\ UNCHANGED obs
    /\ SessionStepFrame

\* lines 330-335: the session is created
UsInsert(p) ==
    /\ pc[p] = "us_insert"
    /\ LET sid == session_id_of(req[p].user_id)
           t == req[p].current_time
       IN active_sessions' =
              [s \in DOMAIN active_sessions \cup {sid} |->
                  IF s = sid
                  THEN [user_id |-> req[p].user_id, started_at |-> t,
                        last_activity |-> t, request_count |-> 1]
                  ELSE active_sessions[s]]
    /\ pc' = [pc EXCEPT ![p] = "done"]
    /\ UNCHANGED <<req, obs>>
    /\ SessionStepFrame

NextSessionsConc ==
    \/ \E p \in Threads :
           \/ SwBegin(p)
           \/ SwNext(p)
           \/ SwDelete(p)
           \/ SwReturn(p)
           \/ UsBegin(p)
           \/ UsTouch(p)
           \/ UsCount(p)
           \/ UsInsert(p)
           \/ Finish(p)
    \/ Tick(SweepInstants)

SpecSessionsConc == Init /\ [][NextSessionsConc]_vars

(***************************************************************************)
(* SpecSla: create-order requests handled one after another while the      *)
(* clock passes the SLA threshold                                          *)
(***************************************************************************)
\* the instants at which the clock is read in SpecSla
SlaInstants == {0, sla_threshold, sla_threshold + 1}

NextSla ==
    \/ StartRequest("t1", MaxSlaRequests)
    \/ DependencyStep("t1")
    \/ OrderStep("t1")
    \/ Tick(SlaInstants)

SpecSla == Init /\ [][NextSla]_vars

(***************************************************************************)
(* SpecOrderSessions: create-order requests with the before_request hook,  *)
(* handled one after another with a healthy dependency. The body of a      *)
(* request names user_id or omits it.                                      *)
(***************************************************************************)
\* order_data.get('user_id') of a body without user_id
NoUserId == "-"

\* 'user-' + str(random.randint(1, 100)), for two of the hundred numbers
SynthesizedUsers == {"user-1", "user-2"}

\* the user_id of the JSON body
BodyUsers == Users \cup {NoUserId}

\* lines 400-404: update_session when the body has a user_id
before_request(sessions, body_user, current_time) ==
    IF body_user # NoUserId
    THEN update_session(sessions, body_user, current_time)
    ELSE sessions

\* line 473: order_data.get('user_id', 'user-' + str(random.randint(1, 100)))
order_user_ids(body_user) ==
    IF body_user # NoUserId THEN {body_user} ELSE SynthesizedUsers

\* POST /api/orders arrives: before_request runs, then create_order starts
PostOrders(p, limit) ==
    /\ pc[p] = "idle"
    /\ nreq < limit
    /\ \E b \in BodyUsers, pid \in ProductIds, q \in Quantities :
           /\ active_sessions' = before_request(active_sessions, b, now)
           /\ \E u \in order_user_ids(b) : create_order_entry(p, u, pid, q)
    /\ nreq' = nreq + 1
    /\ UNCHANGED <<breaker_vars, now, orders, order_id_counter,
                   user_order_history, issued, sess_last, answered>>

NextOrderSessions ==
    \/ PostOrders("t1", MaxSessionOrders)
    \/ HealthyStep("t1")
    \/ OrderStep("t1")
    \/ Tick(CoarseInstants)

SpecOrderSessions == Init /\ [][NextOrderSessions]_vars

(***************************************************************************)
(* SpecRecover: create-order requests handled one after another. The       *)
(* first MaxOutageRequests requests meet a dependency that answers or      *)
(* fails; every later request is answered (with any status). Requests      *)
(* keep arriving, the clock keeps advancing past the failures of the       *)
(* outage, and the server thread keeps running: the fairness conditions.   *)
(***************************************************************************)
\* the outage is over: the dependency answers every call from now on
Recovered == nreq > MaxOutageRequests

\* a clock reading later than reset_timeout after every failure of the
\* outage
LateInstants == CoarseInstants \cup {2 * reset_timeout + 2}

\* the quantity of the requests of SpecRecover and SpecTerminate
RecoverQuantities == {1}

\* a create-order request arrives after the outage; such requests keep
\* arriving while the breaker is not closed, and after that until
\* MaxRecoverOrders orders are stored
LateRequest(p) ==
    /\ pc[p] = "idle"
    /\ nreq >= MaxOutageRequests
    /\ \/ products_circuit_breaker.state # "closed"
       \/ Cardinality(DOMAIN orders) < MaxRecoverOrders
    /\ \E u \in Users, pid \in ProductIds, q \in RecoverQuantities :
           create_order_entry(p, u, pid, q)
    /\ nreq' = MaxOutageRequests + 1
    /\ UNCHANGED <<breaker_vars, now, orders, order_id_counter,
                   user_order_history, issued, session_vars, answered>>

\* requests.get / requests.post returns a response
AnsweredRequest(p) ==
    /\ CpsRequest(p)
    /\ req'[p].outcome.kind = "response"

\* the request of call_products_service, during and after the outage
RecoverRequest(p) ==
    IF Recovered THEN AnsweredRequest(p) ELSE CpsRequest(p)

RecoverTick ==
    IF Recovered THEN Tick(LateInstants) ELSE Tick(CoarseInstants)

RecoverArrival(p) ==
    \/ StartRequestWith(p, MaxOutageRequests, RecoverQuantities)
    \/ LateRequest(p)

RecoverStep(p) ==
    \/ CwrLoop(p)
    \/ CpsEnter(p)
    \/ RecoverRequest(p)
    \/ CpsRecord(p)
    \/ CwrExcept(p)
    \/ CwrWake(p)
    \/ OrderStep(p)

NextRecover ==
    \/ RecoverArrival("t1")
    \/ RecoverStep("t1")
    \/ RecoverTick

SpecRecover ==
    /\ Init
    /\ [][NextRecover]_vars
    /\ WF_vars(RecoverArrival("t1"))
    /\ WF_vars(RecoverStep("t1"))
    /\ WF_vars(RecoverTick)

(***************************************************************************)
(* SpecTerminate: create-order requests handled one after another by a     *)
(* server thread that keeps running: every requests.get / requests.post    *)
(* returns or raises (timeout=5) and every time.sleep returns, so a step   *)
(* of the request that can be taken is taken (weak fairness).              *)
(***************************************************************************)
TerminateStep(p) ==
    \/ DependencyStep(p)
    \/ OrderStep(p)

NextTerminate ==
    \/ StartRequestWith("t1", MaxTerminateRequests, RecoverQuantities)
    \/ TerminateStep("t1")
    \/ Tick(CoarseInstants)

SpecTerminate ==
    /\ Init
    /\ [][NextTerminate]_vars
    /\ WF_vars(TerminateStep("t1"))

(***************************************************************************)
(* Claims about the breaker, the retry executor and the dependency client  *)
(***************************************************************************)
ClientFuncs == {"client", "fetch_product", "check_inventory", "complete_purchase"}

\* C1: once can_execute has returned false inside an operation run by
\* call_with_retry, that call_with_retry invokes the operation no further
\* time, and the rejection adds no retry metric and no backoff sleep: the
\* invocations stop at the rejected one and the retries and sleeps stay at
\* those of the failures before it.
C1_RejectionSurfacesImmediately ==
    \A p \in Threads :
        obs[p].rejected > 0 =>
            /\ obs[p].calls = obs[p].rejected
            /\ obs[p].retries = obs[p].rejected - 1
            /\ obs[p].sleeps = obs[p].rejected - 1

\* C2: a can_execute call made after failure_threshold or more consecutive
\* record_failure calls, no more than reset_timeout after the last of them,
\* returns false; and a call_products_service call that is rejected sends no
\* request and leaves state, failures and last_failure_time as they were.
C2_OpenBreakerRejects ==
    [][\A p \in Threads :
          (pc[p] = "cps_enter" /\ pc'[p] # "cps_enter") =>
             /\ (/\ consec >= failure_threshold
                 /\ now - products_circuit_breaker.last_failure_time
                        <= reset_timeout)
                => (/\ ~cb_last'.ret
                    /\ req'[p].raised.type = "CircuitOpen")
             /\ req'[p].raised.type = "CircuitOpen"
                => (/\ products_circuit_breaker' = products_circuit_breaker
                    /\ obs'[p].net = 0
                    /\ pc'[p] = "cwr_except")]_vars

\* a call rejected exactly reset_timeout after the last failure
C2_Witness ==
    \E p \in Threads :
        /\ pc[p] = "cwr_except"
        /\ req[p].raised.type = "CircuitOpen"
        /\ consec >= failure_threshold
        /\ now - products_circuit_breaker.last_failure_time = reset_timeout

\* C3: the state is one of closed, open, half-open, and the breaker is open
\* only with failures >= failure_threshold.
C3_OpenImpliesThreshold ==
    /\ products_circuit_breaker.state \in {"closed", "open", "half-open"}
    /\ products_circuit_breaker.state = "open"
           => products_circuit_breaker.failures >= failure_threshold

\* the breaker has just been opened by a record_failure call
C3_Witness ==
    /\ products_circuit_breaker.state = "open"
    /\ cb_last.op = "record_failure"
    /\ cb_last.pre.state = "closed"

\* C4: after record_success, whatever the state and the failure count it
\* was called with, failures = 0 and state = closed.
C4_SuccessCloses ==
    cb_last.op = "record_success" =>
        /\ products_circuit_breaker.failures = 0
        /\ products_circuit_breaker.state = "closed"

\* record_success was called on an open breaker
C4_Witness ==
    /\ cb_last.op = "record_success"
    /\ cb_last.pre.state = "open"
    /\ cb_last.pre.failures >= failure_threshold

\* C5 as stated: while the breaker is half-open at most one can_execute
\* call is permitted before a record_success or record_failure.
C5_SingleProbe ==
    products_circuit_breaker.state = "half-open" => probes <= 1

\* C5 as amended: every can_execute call made on a half-open breaker
\* returns true and leaves the breaker half-open.
C5_HalfOpenPermitsAll ==
    (cb_last.op = "can_execute" /\ cb_last.pre.state = "half-open") =>
        /\ cb_last.ret
        /\ products_circuit_breaker = cb_last.pre

\* a second can_execute call was permitted before any record_* call
C5_Witness ==
    /\ cb_last.op = "can_execute"
    /\ cb_last.pre.state = "half-open"
    /\ probes = 2

\* the first attempt of the script that succeeds, 0 when none does
FirstOk(sc, m) ==
    IF \E k \in 1..m : sc[k] = "ok"
    THEN CHOOSE k \in 1..m : sc[k] = "ok" /\ \A j \in 1..(k - 1) : sc[j] # "ok"
    ELSE 0

\* C6: for max_retries >= 1, when call_with_retry has finished, an
\* operation that failed at every attempt was invoked max_retries times and
\* the exception raised is that of the last invocation; an operation that
\* first succeeds at attempt k <= max_retries was invoked k times and the
\* value of invocation k is returned.
C6_RetryCounts ==
    \A p \in Threads :
        (pc[p] = "cwr_return" /\ req[p].func = "op"
                              /\ req[p].max_retries >= 1) =>
            LET m == req[p].max_retries
                k == FirstOk(req[p].script, m) IN
            IF k = 0
            THEN /\ obs[p].calls = m
                 /\ req[p].result = ExceptionValue(m, "OpError")
            ELSE /\ obs[p].calls = k
                 /\ req[p].result.kind = "response"
                 /\ req[p].result.id = k

\* an operation that fails twice and then succeeds, under max_retries = 3
C6_Witness ==
    \E p \in Threads :
        /\ pc[p] = "cwr_return"
        /\ req[p].max_retries = default_max_retries
        /\ FirstOk(req[p].script, default_max_retries) = default_max_retries
        /\ obs[p].calls = default_max_retries

\* C7: a call_products_service call whose can_execute returned true has
\* called none of record_success / record_failure while the request is
\* under way, and exactly one of them once it has returned or raised; a
\* rejected call has called none.
C7_ExactlyOneRecord ==
    \A p \in Threads :
        req[p].func \in ClientFuncs =>
            /\ pc[p] \in {"cps_request", "cps_record"} => obs[p].recs = 0
            /\ (pc[p] \in {"cwr_except", "cwr_sleep", "cwr_loop", "cwr_return"}
                    /\ obs[p].calls > 0)
               => obs[p].recs = IF obs[p].permitted THEN 1 ELSE 0

\* a permitted call with an unsupported method has raised
C7_Witness ==
    \E p \in Threads :
        /\ pc[p] = "cwr_except"
        /\ req[p].method = "PUT"
        /\ req[p].raised.type = "ValueError"
        /\ obs[p].permitted
        /\ obs[p].recs = 1

(***************************************************************************)
(* Claims about the order store                                            *)
(***************************************************************************)
\* the number spelled by an issued order id
IdNumber(oid) == DigitsValue(oid.digits)

\* C8: with the requests handled one after another, the order ids answered
\* with 201 are pairwise distinct and their numbers strictly increase in the
\* order of issue; a request that has failed has left order_id_counter as
\* it found it.
C8_OrderIdsIncrease ==
    /\ \A i, j \in 1..Len(issued) :
           i < j => /\ issued[i] # issued[j]
                    /\ IdNumber(issued[i]) < IdNumber(issued[j])
    /\ \A p \in Threads :
           (pc[p] = "done" /\ req[p].response.status # 201) =>
               order_id_counter = obs[p].snap.order_id_counter

\* a second order has just been issued, and one earlier request failed
C8_Witness ==
    \E p \in Threads :
        /\ pc[p] = "done"
        /\ req[p].response.status = 201
        /\ Len(issued) = 2
        /\ nreq > Len(issued)

\* C9: once the concurrent requests have been answered, the order ids
\* answered with 201 are pairwise distinct and every one of them is a stored
\* order of its own (as many stored orders as 201 responses).
C9_AtomicAllocation ==
    (\A p \in Threads : pc[p] = "idle") =>
        /\ \A i, j \in 1..Len(issued) : i < j => issued[i] # issued[j]
        /\ Cardinality(DOMAIN orders) = Len(issued)

\* C10: a request that has ended in a terminal failure has left orders,
\* order_id_counter and user_order_history as they were when it arrived.
C10_FailureLeavesStore ==
    \A p \in Threads :
        (pc[p] = "done" /\ req[p].response.status # 201) =>
            Store = obs[p].snap

\* a request has failed at the last gate while an order was already stored
C10_Witness ==
    \E p \in Threads :
        /\ pc[p] = "done"
        /\ req[p].response.reason = "purchase_completion_failed"
        /\ orders # <<>>

(***************************************************************************)
(* Claims about the create-order workflow                                  *)
(***************************************************************************)
\* the request of thread p has returned its response
Returned(p) == pc[p] = "done"

\* C11: a create-order request that has returned has recorded exactly one
\* order_processing_time_seconds observation, tagged success for a 201 and
\* failed with the reason of the failure otherwise (internal_error with
\* status 500 on the uncaught-exception path); a request still in progress
\* has recorded none.
C11_OneObservation ==
    \A p \in Threads :
        /\ Returned(p) =>
               /\ Len(obs[p].hist) = 1
               /\ obs[p].hist[1] =
                      IF req[p].response.status = 201
                      THEN Observation("success", "-")
                      ELSE Observation("failed", req[p].response.reason)
               /\ req[p].response.reason = "internal_error" =>
                      req[p].response.status = 500
        /\ ~Returned(p) => obs[p].hist = <<>>

\* a request has ended on the uncaught-exception path
C11_Witness ==
    \E p \in Threads :
        /\ Returned(p)
        /\ req[p].response.status = 500
        /\ obs[p].hist = <<Observation("failed", "internal_error")>>

\* the fetch of the product ended with every invocation raising, the first
\* of them a transport error of a request that was sent
FetchExhausted(p) ==
    /\ Returned(p)
    /\ req[p].func = "fetch_product"
    /\ req[p].attempt = req[p].max_retries
    /\ obs[p].rejected # 1

\* C12: a create-order request whose product fetch was answered 404 has
\* ended with 404 product_not_found, and one whose fetch failed with
\* transport errors until the retries were exhausted has ended with 503
\* service_communication_error, whatever the failure count of the breaker
\* was when the request arrived.
C12_FetchFailures ==
    \A p \in Threads :
        /\ (Returned(p) /\ req[p].func = "fetch_product"
                /\ obs[p].answer = 404) =>
               /\ req[p].response.status = 404
               /\ req[p].response.reason = "product_not_found"
        /\ FetchExhausted(p) =>
               /\ req[p].response.status = 503
               /\ req[p].response.reason = "service_communication_error"

\* the reasons of the terminal failures that come after the inventory gate
AfterInventoryGate ==
    {"payment_declined", "purchase_failed", "purchase_completion_failed"}

\* C13: a request answered insufficient_stock had stock < quantity, is
\* answered 400 with requested = quantity and available = stock, and has
\* added exactly price * quantity to failed_transaction_revenue_lost, once,
\* with reason insufficient_stock; a request that has passed the inventory
\* gate had stock >= quantity.
C13_InsufficientStock ==
    \A p \in Threads :
        /\ (Returned(p) /\ req[p].response.reason = "insufficient_stock") =>
               /\ req[p].response.status = 400
               /\ req[p].response.requested = req[p].quantity
               /\ req[p].response.available < req[p].quantity
               /\ req[p].response.available \in Stocks
               /\ obs[p].lost =
                      <<LostRevenue(req[p].price * req[p].quantity,
                                    "insufficient_stock")>>
        /\ (\/ pc[p] \in {"co_payment", "co_read_id"}
            \/ req[p].func = "complete_purchase"
            \/ Returned(p) /\ req[p].response.reason \in AfterInventoryGate) =>
               req[p].stock >= req[p].quantity

\* a request for two units has been refused with one unit in stock
C13_Witness ==
    \E p \in Threads :
        /\ Returned(p)
        /\ req[p].response.reason = "insufficient_stock"
        /\ req[p].response.requested = 2
        /\ req[p].response.available = 1
        /\ obs[p].lost = <<LostRevenue(20, "insufficient_stock")>>

\* C14: a request that has ended with a terminal failure of the
\* complete-purchase step, purchase_failed (400) or
\* purchase_completion_failed (503), has added price * quantity to
\* failed_transaction_revenue_lost before it returned.
C14_PurchaseFailureRecordsLoss ==
    \A p \in Threads :
        (Returned(p) /\ req[p].response.reason \in
                            {"purchase_failed", "purchase_completion_failed"}) =>
            /\ Len(obs[p].lost) = 1
            /\ obs[p].lost[1].amount = req[p].price * req[p].quantity

(***************************************************************************)
(* Claims about the stored orders                                          *)
(***************************************************************************)
\* the request of thread p is a create-order request
IsCreate(p) == req[p].func \in {"fetch_product", "check_inventory",
                                "complete_purchase"}

\* C15: the order of a 201 response has total_amount = price * quantity and
\* status confirmed; a get_order for an id that was answered with 201 and
\* has not been cancelled since returns 200 with the very record that the
\* 201 response carried.
C15_OrderReadBack ==
    \A p \in Threads :
        /\ (Returned(p) /\ IsCreate(p) /\ req[p].response.status = 201) =>
               /\ req[p].response.order.total_amount =
                      req[p].price * req[p].quantity
               /\ req[p].response.order.status = "confirmed"
        /\ (Returned(p) /\ req[p].func = "get_order") =>
               \A i \in 1..Len(issued) :
                   (/\ issued[i] = req[p].target
                    /\ orders[issued[i]].status # "cancelled") =>
                       /\ req[p].response.status = 200
                       /\ req[p].response.order = answered[i]

\* an order for two units has been read back at a later instant
C15_Witness ==
    \E p \in Threads :
        /\ Returned(p)
        /\ req[p].func = "get_order"
        /\ req[p].response.status = 200
        /\ req[p].response.order.quantity = 2
        /\ req[p].response.order.total_amount = 20
        /\ now > req[p].response.order.created_at

\* the entries of a status history that record a cancellation
CancelledEntries(h) == {i \in 1..Len(h) : h[i].status = "cancelled"}

\* the request of thread p is a cancel_order for an order that was stored
\* as cancelled when the request arrived
CancelOfCancelled(p) ==
    /\ req[p].func = "cancel_order"
    /\ req[p].target \in DOMAIN obs[p].snap.orders
    /\ obs[p].snap.orders[req[p].target].status = "cancelled"

\* C16: a cancel_order for an order that is already cancelled is answered
\* 400 already_cancelled, records no cancellation metric, and leaves the
\* stored record (status, updated_at, status_history and the rest) as it
\* was: the order keeps the single cancelled entry of the first
\* cancellation.
C16_CancelAfterCancel ==
    \A p \in Threads :
        (Returned(p) /\ CancelOfCancelled(p)) =>
            /\ req[p].response.status = 400
            /\ req[p].response.reason = "already_cancelled"
            /\ obs[p].cancels = <<>>
            /\ orders[req[p].target] = obs[p].snap.orders[req[p].target]
            /\ Cardinality(CancelledEntries(
                   orders[req[p].target].status_history)) = 1

\* a second cancellation has been refused at a later instant than the first
C16_Witness ==
    \E p \in Threads :
        /\ Returned(p)
        /\ CancelOfCancelled(p)
        /\ req[p].response.reason = "already_cancelled"
        /\ now > orders[req[p].target].updated_at

\* C18: every stored order has a positive quantity and
\* total_amount = price_per_unit * quantity, whatever quantity the request
\* that created it carried.
C18_StoredOrdersValid ==
    \A id \in DOMAIN orders :
        /\ orders[id].quantity > 0
        /\ orders[id].total_amount =
               orders[id].price_per_unit * orders[id].quantity

(***************************************************************************)
(* Claims about the sessions                                               *)
(***************************************************************************)
\* how long the session has been idle at instant t
IdleTime(data, t) == t - data.last_activity

IdleTimeout == timedelta_minutes(SESSION_TIMEOUT_MINUTES)

\* C17: when get_active_sessions_count() has returned, no session that is
\* left has been idle for longer than the timeout, the value returned is the
\* number of sessions left, and every session that had been idle for no
\* longer than the timeout is still there, unchanged.
C17_ExpiredSessionsRemoved ==
    sess_last.at # None =>
        /\ \A sid \in DOMAIN sess_last.post :
               IdleTime(sess_last.post[sid], sess_last.at) <= IdleTimeout
        /\ sess_last.ret = Cardinality(DOMAIN sess_last.post)
        /\ \A sid \in DOMAIN sess_last.pre :
               IdleTime(sess_last.pre[sid], sess_last.at) <= IdleTimeout =>
                   /\ sid \in DOMAIN sess_last.post
                   /\ sess_last.post[sid] = sess_last.pre[sid]

\* one session was removed and one that had been idle for exactly the
\* timeout was kept
C17_Witness ==
    /\ sess_last.at # None
    /\ \E sid \in DOMAIN sess_last.pre : sid \notin DOMAIN sess_last.post
    /\ \E sid \in DOMAIN sess_last.post :
           IdleTime(sess_last.post[sid], sess_last.at) = IdleTimeout
    /\ sess_last.ret = 1

(***************************************************************************)
(* Claims about concurrent requests                                        *)
(***************************************************************************)
\* no thread is inside a request
Quiescent == \A p \in Threads : pc[p] = "idle"

\* the (state, failures) pairs that the CircuitBreaker methods produce when
\* they are called one after another
SerialPair(cb) ==
    IF cb.state = "closed" THEN cb.failures < failure_threshold
    ELSE cb.failures >= failure_threshold

\* C19: when the CircuitBreaker calls of concurrent requests have all
\* returned, the breaker is in a (state, failures) pair that calls made one
\* after another produce; in particular it is not open with fewer than
\* failure_threshold failures.
C19_BreakerLinearizable ==
    Quiescent =>
        /\ SerialPair(products_circuit_breaker)
        /\ ~(/\ products_circuit_breaker.state = "open"
             /\ products_circuit_breaker.failures < failure_threshold)

\* the request of thread p is a cancel_order that has been answered 200
CancelSucceeded(p) ==
    /\ Returned(p)
    /\ req[p].func = "cancel_order"
    /\ req[p].response.status = 200

\* C20: of the cancel_order requests for one order at most one succeeds,
\* also when they overlap: the status history of an order never holds more
\* than one cancelled entry, and two requests for the same order are not
\* both answered 200 with a refund and a counted cancellation.
C20_OneCancellationWins ==
    /\ \A id \in DOMAIN orders :
           Cardinality(CancelledEntries(orders[id].status_history)) <= 1
    /\ \A p, q \in Threads :
           (p # q /\ CancelSucceeded(p) /\ CancelSucceeded(q)) =>
               req[p].target # req[q].target

(***************************************************************************)
(* Claims about concurrent sessions                                        *)
(***************************************************************************)
\* the thread's call of get_active_sessions_count or update_session raised
SessionCallFailed(p) ==
    /\ req[p].func \in {"get_active_sessions_count", "update_session"}
    /\ req[p].raised.kind = "exception"

\* C21: a sweep by get_active_sessions_count that overlaps update_session
\* or another sweep never fails and never evicts a session whose
\* last_activity is within the idle timeout: every session it removes has
\* been idle for longer than the timeout when it is removed (so a session
\* refreshed between the collect loop and the delete loop survives), and
\* no call raises (so no key is deleted twice).
C21_SweepsDoNotRace ==
    \A p \in Threads :
        /\ ~SessionCallFailed(p)
        /\ \A i \in DOMAIN obs[p].evicted :
               obs[p].evicted[i].idle > IdleTimeout

(***************************************************************************)
(* Claims about the order of the steps of create_order                     *)
(***************************************************************************)
\* the steps of create_order in the order of the source
WorkflowOrder ==
    <<"classify", "fetch_product", "check_inventory", "payment",
      "complete_purchase", "commit">>

IsPrefix(s, t) ==
    /\ Len(s) <= Len(t)
    /\ \A i \in 1..Len(s) : s[i] = t[i]

Entered(p, step) == \E i \in DOMAIN obs[p].trail : obs[p].trail[i] = step

Answered200(p, func) == [func |-> func, status |-> 200] \in obs[p].seen

\* the step at which a failure with this reason leaves the workflow
FailedSteps(reason) ==
    IF reason \in {"product_not_found", "service_communication_error"}
    THEN {"fetch_product"}
    ELSE IF reason \in {"inventory_check_failed", "insufficient_stock"}
    THEN {"check_inventory"}
    ELSE IF reason = "payment_declined" THEN {"payment"}
    ELSE IF reason \in {"purchase_failed", "purchase_completion_failed"}
    THEN {"complete_purchase"}
    ELSE {"fetch_product", "check_inventory", "complete_purchase"}

\* C22: within one create-order request the steps are entered in the order
\* classify, fetch product, validate inventory, payment, complete purchase,
\* commit; a step is entered only after the steps before it succeeded (the
\* dependency answered 200 to the fetch and to the inventory check with
\* enough stock, the purchase POST was answered 200 before the commit), no
\* request is sent for a step that was not entered, and a request that
\* failed stopped at the step that failed.
C22_StepsInOrder ==
    \A p \in Threads :
        obs[p].trail # <<>> =>
            /\ IsPrefix(obs[p].trail, WorkflowOrder)
            /\ \A f \in obs[p].sent : Entered(p, f)
            /\ Entered(p, "check_inventory") =>
                   Answered200(p, "fetch_product")
            /\ Entered(p, "payment") =>
                   /\ Answered200(p, "check_inventory")
                   /\ ~insufficient_stock(req[p].stock, req[p].quantity)
            /\ "complete_purchase" \in obs[p].sent =>
                   /\ Answered200(p, "fetch_product")
                   /\ Answered200(p, "check_inventory")
                   /\ Entered(p, "payment")
            /\ Entered(p, "commit") => Answered200(p, "complete_purchase")
            /\ (Returned(p) /\ req[p].response.status # 201) =>
                   /\ obs[p].trail[Len(obs[p].trail)]
                          \in FailedSteps(req[p].response.reason)
                   /\ req[p].order_record = NoOrder
            /\ (Returned(p) /\ req[p].response.status = 201) =>
                   obs[p].trail = WorkflowOrder

\* a request went through all the steps, with a request sent for each of
\* the three dependency calls, and was answered 201
C22_Witness ==
    \E p \in Threads :
        /\ Returned(p)
        /\ obs[p].trail = WorkflowOrder
        /\ req[p].response.status = 201
        /\ obs[p].sent = {"fetch_product", "check_inventory",
                          "complete_purchase"}

(***************************************************************************)
(* Claims about the SLA accounting                                         *)
(***************************************************************************)
\* the reason tag of the processing-time observation of the request
ObservedReason(p) == obs[p].hist[Len(obs[p].hist)].reason

CreateReturned(p) == Returned(p) /\ obs[p].trail # <<>>

\* C23 as stated: on every exit path of create-order the SLA-violation
\* counter is incremented exactly when the elapsed time exceeds 2.0 s, with
\* the reason tag of the processing-time observation of that request.
C23_SlaSameReason ==
    \A p \in Threads :
        CreateReturned(p) =>
            IF obs[p].processing_time > sla_threshold
            THEN obs[p].sla = <<ObservedReason(p)>>
            ELSE obs[p].sla = <<>>

\* C23, amended: the counter is incremented exactly when the elapsed time
\* exceeds 2.0 s; on a failing exit path its reason tag is the reason of the
\* processing-time observation, and on the success path, whose observation
\* is tagged status success and carries no reason, it is slow_processing.
C23_SlaAccounting ==
    \A p \in Threads :
        CreateReturned(p) =>
            /\ obs[p].processing_time <= now - req[p].start_time
            /\ IF obs[p].processing_time > sla_threshold
               THEN obs[p].sla =
                        <<IF req[p].response.status = 201
                          THEN "slow_processing" ELSE ObservedReason(p)>>
               ELSE obs[p].sla = <<>>
            /\ req[p].response.status # 201 =>
                   ObservedReason(p) = req[p].response.reason

\* a request failed after exactly the threshold and counted no violation
C23_Witness ==
    \E p \in Threads :
        /\ CreateReturned(p)
        /\ req[p].response.reason = "insufficient_stock"
        /\ obs[p].processing_time = sla_threshold
        /\ obs[p].sla = <<>>

(***************************************************************************)
(* Claims about the session of a create-order request                      *)
(***************************************************************************)
\* C24: when a create-order request of user u has been answered 201,
\* whether the body named u or user_id was synthesized, active_sessions
\* holds the session of u, and its last_activity is the time at which the
\* request arrived.
C24_CreateUpdatesSession ==
    \A p \in Threads :
        (CreateReturned(p) /\ req[p].response.status = 201) =>
            /\ session_id_of(req[p].user_id) \in DOMAIN active_sessions
            /\ active_sessions[session_id_of(req[p].user_id)].last_activity
                   = req[p].start_time
            /\ active_sessions[session_id_of(req[p].user_id)].request_count
                   >= 1

(***************************************************************************)
(* Claims about cancel_order and the frame of the stored orders            *)
(***************************************************************************)
\* the reasons with which cancel_order refuses or fails
CancelFailures ==
    {"order_not_found", "already_cancelled", "already_shipped",
     "cancellation_failed"}

\* C25: cancel_order changes the order exactly when it answers 200. When it
\* answers not found, already cancelled, already shipped or cancellation
\* failed (500), the orders and the cancellation metrics are as they were
\* when the request arrived; when it answers 200, the status is cancelled,
\* status_history has gained exactly one entry, which is cancelled, nothing
\* else of the record but updated_at has changed, one cancellation is
\* counted and refund_amount is the total_amount of the order.
C25_CancelMutatesOnSuccess ==
    \A p \in Threads :
        (Returned(p) /\ req[p].func = "cancel_order") =>
            LET id == req[p].target
                before == obs[p].snap.orders
            IN
            IF req[p].response.status = 200
            THEN /\ id \in DOMAIN before
                 /\ before[id].status # "cancelled"
                 /\ orders[id].status = "cancelled"
                 /\ Len(orders[id].status_history)
                        = Len(before[id].status_history) + 1
                 /\ SubSeq(orders[id].status_history, 1,
                           Len(before[id].status_history))
                        = before[id].status_history
                 /\ orders[id].status_history[
                        Len(orders[id].status_history)].status = "cancelled"
                 /\ [orders[id] EXCEPT
                        !.status = before[id].status,
                        !.updated_at = before[id].updated_at,
                        !.status_history = before[id].status_history]
                        = before[id]
                 /\ \A o \in DOMAIN orders \ {id} : orders[o] = before[o]
                 /\ Len(obs[p].cancels) = 1
                 /\ req[p].response.refund = before[id].total_amount
            ELSE /\ req[p].response.reason \in CancelFailures
                 /\ orders = before
                 /\ obs[p].cancels = <<>>

\* an order of two units has been cancelled and its total refunded, at a
\* later instant than it was created
C25_Witness ==
    \E p \in Threads :
        /\ Returned(p)
        /\ req[p].func = "cancel_order"
        /\ req[p].response.status = 200
        /\ req[p].response.refund = 20
        /\ orders[req[p].target].updated_at
               > orders[req[p].target].created_at

\* the fields of a stored order that no request changes
FixedFields(rec) ==
    [order_id |-> rec.order_id, user_id |-> rec.user_id,
     product_id |-> rec.product_id, quantity |-> rec.quantity,
     price_per_unit |-> rec.price_per_unit,
     total_amount |-> rec.total_amount, created_at |-> rec.created_at]

\* the fields of a stored order that cancel_order changes
StatusFields(rec) ==
    [status |-> rec.status, updated_at |-> rec.updated_at,
     status_history |-> rec.status_history]

\* this step is the write of a cancel_order for order id that goes on to
\* its 200 response
SuccessfulCancelWrites(id) ==
    \E p \in Threads :
        /\ req[p].func = "cancel_order"
        /\ req[p].target = id
        /\ pc[p] = "ca_write"
        /\ pc'[p] = "ca_respond"

\* C26: in any sequence of create, get, list, track and cancel requests no
\* step removes a stored order or changes its order_id, user_id,
\* product_id, quantity, price_per_unit, total_amount or created_at, and a
\* step changes its status, updated_at or status_history only as the write
\* of a cancel_order that is answered 200.
C26_StoredOrdersFrame ==
    [][\A id \in DOMAIN orders :
           /\ id \in DOMAIN orders'
           /\ FixedFields(orders'[id]) = FixedFields(orders[id])
           /\ StatusFields(orders'[id]) # StatusFields(orders[id]) =>
                  SuccessfulCancelWrites(id)]_vars

\* an order was created, cancelled at a later instant, and has been tracked
\* since: it is still stored, cancelled, with the total of its creation
C26_Witness ==
    \E p \in Threads :
        /\ Returned(p)
        /\ req[p].func = "track_order"
        /\ req[p].response.status = 200
        /\ req[p].response.order.current_status = "cancelled"
        /\ orders[req[p].target].updated_at
               > orders[req[p].target].created_at
        /\ orders[req[p].target].total_amount = 20

(***************************************************************************)
(* Claims about the read path                                              *)
(***************************************************************************)
\* this step is thread p taking or answering a request of handler func
HandlerStep(p, func) ==
    /\ pc'[p] # pc[p]
    /\ \/ req[p].func = func /\ pc'[p] = "done"
       \/ pc[p] = "idle" /\ req'[p].func = func

StoreAndBreakerUnchanged ==
    UNCHANGED <<orders, order_id_counter, user_order_history, known_users,
                products_circuit_breaker>>

\* C27 as stated: get_order, get_user_orders and track_order leave orders,
\* order_id_counter, user_order_history, known_users, the circuit breaker
\* and the session table unchanged.
C27_ReadsChangeNothing ==
    [][\A p \in Threads :
           (\/ HandlerStep(p, "get_order")
            \/ HandlerStep(p, "get_user_orders")
            \/ HandlerStep(p, "track_order")) =>
               /\ StoreAndBreakerUnchanged
               /\ UNCHANGED active_sessions]_vars

\* C27, amended: get_order and track_order leave orders, order_id_counter,
\* user_order_history, known_users, the circuit breaker and the session
\* table unchanged; get_user_orders leaves the first five unchanged and
\* creates or refreshes the session of the user whose orders it lists
\* (last_activity is the time of the request, request_count is one more
\* than before, or 1), leaving the sessions of the other users unchanged.
C27_ReadsFrame ==
    [][\A p \in Threads :
           /\ (HandlerStep(p, "get_order") \/ HandlerStep(p, "track_order")) =>
                  /\ StoreAndBreakerUnchanged
                  /\ UNCHANGED active_sessions
           /\ HandlerStep(p, "get_user_orders") => StoreAndBreakerUnchanged
           /\ (HandlerStep(p, "get_user_orders") /\ pc'[p] = "done") =>
                  LET sid == session_id_of(req[p].user_id) IN
                  /\ DOMAIN active_sessions'
                         = DOMAIN active_sessions \cup {sid}
                  /\ \A o \in DOMAIN active_sessions \ {sid} :
                         active_sessions'[o] = active_sessions[o]
                  /\ active_sessions'[sid].last_activity = now
                  /\ active_sessions'[sid].request_count =
                         IF sid \in DOMAIN active_sessions
                         THEN active_sessions[sid].request_count + 1
                         ELSE 1]_vars

\* the orders of a user have been listed for the second time, with the
\* session of another user in the table
C27_Witness ==
    \E p \in Threads :
        /\ Returned(p)
        /\ req[p].func = "get_user_orders"
        /\ active_sessions[session_id_of(req[p].user_id)].request_count = 2
        /\ Cardinality(DOMAIN active_sessions) = 2

(***************************************************************************)
(* Claims about the breaker in the create-order workflow                   *)
(***************************************************************************)
\* C28: a create-order request in whose last dependency call the breaker
\* refused an invocation has not ended with reason internal_error and
\* status 500 (the answer of the catch-all), but with an error of its own.
C28_RejectionNotInternalError ==
    \A p \in Threads :
        (CreateReturned(p) /\ obs[p].rejected > 0) =>
            /\ req[p].response.reason # "internal_error"
            /\ req[p].response.status # 500

\* C29: a response of the dependency, whatever its HTTP status (404 and 500
\* included), is recorded as a success by the breaker (failures 0, state
\* closed) and handed back by call_with_retry without a further attempt;
\* the failure count of the breaker grows only when the request raised an
\* exception inside call_products_service, and a retry is counted only
\* after an exception.
C29_ErrorStatusIsSuccess ==
    [][\A p \in Threads :
           /\ (pc[p] = "cps_record" /\ pc'[p] # "cps_record"
                   /\ req[p].outcome.kind = "response") =>
                  /\ products_circuit_breaker'.failures = 0
                  /\ products_circuit_breaker'.state = "closed"
                  /\ pc'[p] = "cwr_return"
                  /\ req'[p].result = req[p].outcome
                  /\ obs'[p].calls = obs[p].calls
                  /\ obs'[p].retries = obs[p].retries
           /\ (pc[p] = "cwr_return" /\ pc'[p] # "cwr_return") =>
                  pc'[p] \notin {"cwr_loop", "cwr_sleep", "cps_enter"}
                      \/ req'[p].func # req[p].func
           /\ products_circuit_breaker'.failures
                  > products_circuit_breaker.failures =>
                  \E q \in Threads :
                      /\ pc[q] = "cps_record"
                      /\ req[q].outcome.kind = "exception"
           /\ obs'[p].retries > obs[p].retries =>
                  /\ pc[p] = "cwr_except"
                  /\ req[p].raised.kind = "exception"]_vars

\* the dependency answered 500 on the second attempt, after a failure: the
\* breaker is closed with no failures and the response is handed back
C29_Witness ==
    \E p \in Threads :
        /\ pc[p] = "cwr_return"
        /\ req[p].result.kind = "response"
        /\ req[p].result.status = 500
        /\ obs[p].calls = 2
        /\ obs[p].retries = 1
        /\ cb_last.op = "record_success"
        /\ cb_last.pre.failures > 0
        /\ products_circuit_breaker.failures = 0
        /\ products_circuit_breaker.state = "closed"

(***************************************************************************)
(* Claims about the recovery of the breaker                                *)
(***************************************************************************)
\* C30: when the clock keeps advancing, create-order requests keep
\* arriving and the dependency answers every call from some point on, a
\* breaker that is open or half-open is closed at some later time: it does
\* not stay open or half-open for ever.
C30_BreakerRecovers ==
    (products_circuit_breaker.state # "closed")
        ~> (products_circuit_breaker.state = "closed")

\* after the outage a probe of the half-open breaker was answered and
\* record_success closed the breaker
C30_Witness ==
    /\ Recovered
    /\ products_circuit_breaker.state = "closed"
    /\ cb_last.op = "record_success"
    /\ cb_last.pre.state = "half-open"
    /\ cb_last.pre.failures >= failure_threshold

(***************************************************************************)
(* Claims about the status of the stored orders                            *)
(***************************************************************************)
\* the statuses of the entries of a status history, in order
StatusesOf(h) == [i \in DOMAIN h |-> h[i].status]

\* C31: with the requests handled one after another, every stored order has
\* status confirmed or cancelled (never shipped), its status is that of the
\* last entry of its status_history, and the statuses of its status_history
\* are created, confirmed or created, confirmed, cancelled.
C31_StatusFollowsHistory ==
    \A id \in DOMAIN orders :
        /\ orders[id].status \in {"confirmed", "cancelled"}
        /\ orders[id].status_history # <<>>
        /\ orders[id].status =
               orders[id].status_history[
                   Len(orders[id].status_history)].status
        /\ StatusesOf(orders[id].status_history)
               \in {<<"created", "confirmed">>,
                    <<"created", "confirmed", "cancelled">>}

\* two orders are stored, one confirmed and one cancelled at a later
\* instant than it was created
C31_Witness ==
    /\ \E id \in DOMAIN orders :
           /\ orders[id].status = "confirmed"
           /\ StatusesOf(orders[id].status_history)
                  = <<"created", "confirmed">>
    /\ \E id \in DOMAIN orders :
           /\ orders[id].status = "cancelled"
           /\ StatusesOf(orders[id].status_history)
                  = <<"created", "confirmed", "cancelled">>
           /\ orders[id].updated_at > orders[id].created_at

(***************************************************************************)
(* Claims about the termination of create_order                            *)
(***************************************************************************)
\* the dependency calls of create_order
DependencyCalls == {"fetch_product", "check_inventory", "complete_purchase"}

\* how many dependency calls the request has handed to call_with_retry
StepsBegun(p) ==
    Cardinality({i \in DOMAIN obs[p].trail :
                    obs[p].trail[i] \in DependencyCalls})

\* the statuses with which create_order answers
CreateStatuses == {201, 400, 402, 404, 500, 503}

\* the attempts of a create-order request are bounded: at most max_retries
\* invocations in each call_with_retry and at most three call_with_retry
\* calls, which makes at most 9 invocations in all; a retry is counted and
\* slept for only between two invocations
AttemptsBounded(p) ==
    /\ obs[p].calls <= default_max_retries
    /\ StepsBegun(p) <= Cardinality(DependencyCalls)
    /\ (StepsBegun(p) - 1) * default_max_retries + obs[p].calls <= 9
    /\ obs[p].retries <= default_max_retries - 1
    /\ obs[p].sleeps = obs[p].retries
    /\ obs[p].sleeps <= obs[p].calls
    /\ pc[p] = "cwr_sleep" => obs[p].calls < default_max_retries
    /\ (pc[p] \in {"cwr_return", "done"} /\ obs[p].calls > 0) =>
           obs[p].sleeps = obs[p].calls - 1
    /\ Returned(p) => req[p].response.status \in CreateStatuses

\* C32: every create-order request ends with a response; it invokes the
\* dependency at most max_retries times in each workflow step and at most 9
\* times in all, and counts a retry and sleeps only between two attempts,
\* at most max_retries - 1 times a step, never after the last failed one.
C32_CreateTerminates ==
    /\ [](\A p \in Threads : obs[p].trail # <<>> => AttemptsBounded(p))
    /\ \A p \in Threads :
           (pc[p] \notin {"idle", "done"}) ~> (pc[p] = "done")

\* the purchase, the third step, failed at all three attempts after two
\* retries with their sleeps, and the request was answered 503
C32_Witness ==
    \E p \in Threads :
        /\ Returned(p)
        /\ req[p].response.reason = "purchase_completion_failed"
        /\ StepsBegun(p) = 3
        /\ obs[p].calls = default_max_retries
        /\ obs[p].retries = default_max_retries - 1
        /\ obs[p].sleeps = default_max_retries - 1

====
